---- MODULE Spec2Model ----
(***************************************************************************)
(* The tab-state management subsystem of the trade calculator              *)
(* (src/unnamed/part_001, lines 722-2441): the Tab Store (tabs,            *)
(* activeTabId and their persisted copies), Form Sync (the six bound form  *)
(* fields, the loading flag and the save debounce timer), the quote cache  *)
(* and the active-tab poller.                                              *)
(*                                                                         *)
(* Every handler of the source is an operator from a state record to a     *)
(* state record, composed the way the source calls one function from       *)
(* another; an action applies one handler to the current state.  Strings   *)
(* are sequences of one-character strings, so that trim() and              *)
(* toUpperCase() are computed, and numbers are parsed from and formatted   *)
(* to them as parseFloat, parseInt and toFixed do.  Trade Math             *)
(* (calculateTradeLevels) writes the results panel; amounts are exact      *)
(* decimals counted in hundredths and millionths, so the rounding of       *)
(* toFixed is the rounding of the exact value (the binary representation   *)
(* error of a double is not modelled), and the amounts converted with the  *)
(* fetched exchange rate are left out.                                     *)
(***************************************************************************)
EXTENDS Integers, Sequences, FiniteSets, TLC

VARIABLES
    tabs,                \* let tabs = []                       (line 727)
    activeTabId,         \* let activeTabId = null              (line 728)
    calculationMode,     \* let calculationMode = 'current'     (line 730)
    autoPriceEnabled,    \* let autoPriceEnabled = false        (line 1875)
    form,                \* the value of the six bound <input> elements
    isLoadingTabState,   \* let isLoadingTabState = false       (line 1119)
    loadTimers,          \* pending setTimeout(..., 100) of loadTabState
    saveTimers,          \* pending setTimeout(..., 300) of debouncedSaveTabState
    symbolTimer,         \* this.debounceTimer of the symbol listener (line 2434)
    autoFetchIntervalId, \* let autoFetchIntervalId = null      (line 1880)
    intervalTimers,      \* live setInterval timers of the poller
    localStorage,        \* stockTabs, activeTabId and the stockPrice_* keys
    inflight,            \* fetch() calls awaiting their response
    now,                 \* Date.now()
    cleanupPending,      \* the setTimeout(..., 1000) of initTabSystem
    results,             \* the results panel: its texts and whether it shows
    edits,               \* edits of the form the user may still make
    randomDraws,         \* "distinct" or "any": what Math.random() may return
    last                 \* the handler that ran last (history, for the claims)

vars == <<tabs, activeTabId, calculationMode, autoPriceEnabled, form,
          isLoadingTabState, loadTimers, saveTimers, symbolTimer,
          autoFetchIntervalId, intervalTimers, localStorage, inflight, now,
          cleanupPending, results, edits, randomDraws, last>>

(***************************************************************************)
(* Bounds of the model.                                                    *)
(***************************************************************************)
MaxTabs == 3          \* the value MAX_TABS is scaled down to
NumRand == 2          \* distinct outcomes of Math.random() in generateTabId
MaxTime == 1          \* Date.now() ranges over 0..MaxTime
NumSymbols == 2       \* how many entries of SymbolList the user may type
MaxPrice == 1         \* quotes range over 1..MaxPrice
MaxEdits == 1         \* edits of the form (fields, toggle, mode) per behaviour
MaxCacheEdits == 3    \* edits of the form per behaviour of SpecCache
CacheTabs == 2        \* tabs per behaviour of SpecCache
MaxBurst == 2         \* keystrokes per behaviour of SpecBurst
MaxLoadTimers == 1    \* pending load timeouts are counted up to this
CacheTicks == 1       \* the value PRICE_CACHE_DURATION is scaled down to
MaxPollEdits == 1     \* edits of the form per behaviour of SpecPoll
MaxMathEdits == 1     \* edits of the form per behaviour of SpecMath
PriceStep == 50       \* SpecMath starts on prices that are multiples of this
MaxPriceSteps == 2    \* up to this many steps
QuantityStep == 5     \* SpecMath starts on quantities that are multiples of this
MaxQuantitySteps == 2 \* up to this many steps
MaxPercent == 10      \* SpecMath starts on percentages 0..MaxPercent

MAX_TABS == MaxTabs
PRICE_CACHE_DURATION == CacheTicks

NULL == <<>>          \* null; also the empty string ''

(***************************************************************************)
(* Strings.                                                                *)
(***************************************************************************)
Min(a, b) == IF a < b THEN a ELSE b
Max(a, b) == IF a > b THEN a ELSE b

UpperChar(c) == IF c = "a" THEN "A" ELSE IF c = "b" THEN "B" ELSE c

\* String.prototype.toUpperCase
ToUpperCase(str) == [i \in 1..Len(str) |-> UpperChar(str[i])]

RECURSIVE TrimStart(_)
TrimStart(str) ==
    IF str # <<>> /\ Head(str) = " " THEN TrimStart(Tail(str)) ELSE str

RECURSIVE TrimEnd(_)
TrimEnd(str) ==
    IF str # <<>> /\ str[Len(str)] = " "
    THEN TrimEnd(SubSeq(str, 1, Len(str) - 1))
    ELSE str

\* String.prototype.trim
Trim(str) == TrimEnd(TrimStart(str))

DigitChar(d) == <<"0", "1", "2", "3", "4", "5", "6", "7", "8", "9">>[d + 1]

RECURSIVE Digits(_)
Digits(n) ==
    IF n < 10 THEN <<DigitChar(n)>>
    ELSE Digits(n \div 10) \o <<DigitChar(n % 10)>>

\* Number.prototype.toFixed(2), for the whole-number quotes of the model
ToFixed2(p) == Digits(p) \o <<".", "0", "0">>

\* a string is truthy unless it is empty
Truthy(str) == str # <<>>

\* str || ''
OrEmpty(str) == IF Truthy(str) THEN str ELSE <<>>

(***************************************************************************)
(* What the environment supplies: typed text, random numbers, quotes.      *)
(***************************************************************************)
SymbolList == << <<"A">>, <<"a", " ">>, <<"B">>, <<" ", "b">> >>

SymbolInputs ==
    {<<>>} \cup {SymbolList[i] : i \in 1..Min(NumSymbols, Len(SymbolList))}

NumberInputs == {<<>>} \cup {Digits(n) : n \in 1..MaxPrice}

Rand == 1..NumRand

\* The outcomes of Math.random() for a tab created at `time` into collection
\* ts.  "any": every outcome.  "distinct": an outcome that no record created
\* in the same millisecond carries (outcomes are only ever compared, so the
\* least such one stands for all of them).
Draws(mode, ts, time) ==
    IF mode = "any" THEN Rand
    ELSE LET used == {ts[i].id[2] : i \in {j \in 1..Len(ts) : ts[j].id[1] = time}}
         IN  {CHOOSE n \in 1..(Len(ts) + 1) :
                /\ n \notin used
                /\ \A m \in 1..(n - 1) : m \in used}

Quotes == 1..MaxPrice

Modes == {"current", "target"}

NumberFields == {"entryPrice", "targetPrice", "quantity", "tpPercent", "slPercent"}

EmptyForm ==
    [stockSymbol |-> <<>>, entryPrice |-> <<>>, targetPrice |-> <<>>,
     quantity |-> <<>>, tpPercent |-> <<>>, slPercent |-> <<>>]

(***************************************************************************)
(* The state as one record, so that handlers compose.  Each tab record     *)
(* carries obj, the identity of the JavaScript object, which JSON does not *)
(* serialise: a poll cycle keeps a reference to the object it read, and    *)
(* two records may carry the same id.                                      *)
(***************************************************************************)
S ==
    [tabs |-> tabs, activeTabId |-> activeTabId,
     calculationMode |-> calculationMode, autoPriceEnabled |-> autoPriceEnabled,
     form |-> form, isLoadingTabState |-> isLoadingTabState,
     loadTimers |-> loadTimers, saveTimers |-> saveTimers,
     symbolTimer |-> symbolTimer, autoFetchIntervalId |-> autoFetchIntervalId,
     intervalTimers |-> intervalTimers, localStorage |-> localStorage,
     inflight |-> inflight, now |-> now, cleanupPending |-> cleanupPending,
     results |-> results]

\* Object identities are arbitrary names: every record is renamed to its
\* position and the poll cycles' captures follow; an object that is no longer
\* in the collection, whose fields nothing reads, becomes 0.
Renamed(s) ==
    LET pos(o) == IF \E i \in 1..Len(s.tabs) : s.tabs[i].obj = o
                  THEN CHOOSE i \in 1..Len(s.tabs) : s.tabs[i].obj = o
                  ELSE 0
    IN  [s EXCEPT
            !.tabs = [i \in 1..Len(@) |-> [@[i] EXCEPT !.obj = i]],
            !.inflight = {[f EXCEPT !.obj = pos(f.obj)] : f \in @}]

Apply(t) ==
    LET s == Renamed(t)
    IN
    /\ tabs' = s.tabs
    /\ activeTabId' = s.activeTabId
    /\ calculationMode' = s.calculationMode
    /\ autoPriceEnabled' = s.autoPriceEnabled
    /\ form' = s.form
    /\ isLoadingTabState' = s.isLoadingTabState
    /\ loadTimers' = s.loadTimers
    /\ saveTimers' = s.saveTimers
    /\ symbolTimer' = s.symbolTimer
    /\ autoFetchIntervalId' = s.autoFetchIntervalId
    /\ intervalTimers' = s.intervalTimers
    /\ localStorage' = s.localStorage
    /\ inflight' = s.inflight
    /\ now' = s.now
    /\ cleanupPending' = s.cleanupPending
    /\ results' = s.results

\* tabs.findIndex(t => t.id === id), 1-based; 0 stands for -1
FindIndex(ts, id) ==
    IF \E i \in 1..Len(ts) : ts[i].id = id
    THEN CHOOSE i \in 1..Len(ts) :
            /\ ts[i].id = id
            /\ \A j \in 1..(i - 1) : ts[j].id # id
    ELSE 0

\* variant that removes nothing
SpliceOut_None(ts, index) == ts

\* Array.prototype.splice(index, 1), index 0-based; -1 counts from the end
SpliceOut(ts, index) ==
    LET k == IF index < 0 THEN Max(Len(ts) + index, 0) + 1 ELSE index + 1
    IN  IF k > Len(ts) THEN ts
        ELSE SubSeq(ts, 1, k - 1) \o SubSeq(ts, k + 1, Len(ts))

\* variant that inserts at the end
SpliceIn_Append(ts, index, item) == Append(ts, item)

\* Array.prototype.splice(index, 0, item), index 0-based and >= 0
SpliceIn(ts, index, item) ==
    LET k == Min(index, Len(ts))
    IN  SubSeq(ts, 1, k) \o <<item>> \o SubSeq(ts, k + 1, Len(ts))

\* JSON.stringify(tabs): every own property, not the object's identity
Serialize(ts) ==
    [i \in 1..Len(ts) |->
        [id |-> ts[i].id, name |-> ts[i].name,
         stockSymbol |-> ts[i].stockSymbol, entryPrice |-> ts[i].entryPrice,
         targetPrice |-> ts[i].targetPrice, quantity |-> ts[i].quantity,
         tpPercent |-> ts[i].tpPercent, slPercent |-> ts[i].slPercent,
         autoPriceEnabled |-> ts[i].autoPriceEnabled,
         calculationMode |-> ts[i].calculationMode,
         createdAt |-> ts[i].createdAt]]

\* the key stockPrice_<symbol>; the cache is the set of entries, one per key
RemoveItem(cache, symbol) == {e \in cache : e.symbol # symbol}

GetItem(cache, symbol) == {e \in cache : e.symbol = symbol}

\* objects that are still referenced: the records and the poll cycles' captures
LiveObjs(s) ==
    {s.tabs[i].obj : i \in 1..Len(s.tabs)} \cup {f.obj : f \in s.inflight}

NewObj(s) == CHOOSE n \in 1..(Cardinality(LiveObjs(s)) + 1) : n \notin LiveObjs(s)


(***************************************************************************)
(* Trade Math.  A price or a percentage is a number of hundredths, a       *)
(* product of the two a number of millionths; NaN is a negative number,    *)
(* which the model's inputs, having no sign, cannot denote.                *)
(***************************************************************************)
NaN == 0 - 1

IsDigit(c) == \E d \in 0..9 : DigitChar(d) = c

DigitValue(c) == CHOOSE d \in 0..9 : DigitChar(d) = c

\* the longest prefix of str made of digits
RECURSIVE LeadingDigits(_)
LeadingDigits(str) ==
    IF str = <<>> \/ ~IsDigit(Head(str)) THEN <<>>
    ELSE <<Head(str)>> \o LeadingDigits(Tail(str))

RECURSIVE DigitsValue(_)
DigitsValue(ds) ==
    IF ds = <<>> THEN 0
    ELSE DigitsValue(SubSeq(ds, 1, Len(ds) - 1)) * 10 + DigitValue(ds[Len(ds)])

\* parseInt(str): the leading digits, NaN when there is none
parseInt(str) ==
    IF LeadingDigits(str) = <<>> THEN NaN ELSE DigitsValue(LeadingDigits(str))

\* the decimals that follow the leading digits: what follows a point
DecimalsOf(rest) ==
    IF rest # <<>> /\ Head(rest) = "." THEN LeadingDigits(Tail(rest)) ELSE <<>>

\* the number of hundredths with the digits whole before the point and the
\* digits decimals after it
HundredthsOf(whole, decimals) ==
    IF whole = <<>> /\ decimals = <<>> THEN NaN
    ELSE DigitsValue(whole) * 100
            + DigitsValue(SubSeq(decimals \o <<"0", "0">>, 1, 2))

AfterDigits(str, whole) ==
    HundredthsOf(whole, DecimalsOf(SubSeq(str, Len(whole) + 1, Len(str))))

\* the number a minus sign precedes
Negated(h) == IF h = NaN THEN NaN ELSE 0 - h

\* parseFloat(str), in hundredths: a sign, the leading digits and, after a
\* point, the decimals, of which the strings of the model have at most two
parseFloat(str) ==
    IF str # <<>> /\ Head(str) = "-"
    THEN Negated(AfterDigits(Tail(str), LeadingDigits(Tail(str))))
    ELSE AfterDigits(str, LeadingDigits(str))

\* the integer nearest to num / den, the larger one of two
RoundHalfUp(num, den) ==
    (num \div den) + (IF 2 * (num % den) >= den THEN 1 ELSE 0)

RECURSIVE Gcd(_, _)
Gcd(a, b) == IF b = 0 THEN a ELSE Gcd(b, a % b)

\* a number of hundredths written with two decimals
Fixed2(h) ==
    Digits(h \div 100) \o <<".", DigitChar((h % 100) \div 10), DigitChar(h % 10)>>

\* a number of tenths written with one decimal
Fixed1(d) == Digits(d \div 10) \o <<".", DigitChar(d % 10)>>

\* x.toFixed(2) of a number x of hundredths
HundredthsToFixed2(x) ==
    IF x < 0 THEN <<"-">> \o Fixed2(0 - x) ELSE Fixed2(x)

\* x.toFixed(2) of a number x of millionths
MillionthsToFixed2(x) ==
    IF x < 0 THEN <<"-">> \o Fixed2(RoundHalfUp(0 - x, 10000))
    ELSE Fixed2(RoundHalfUp(x, 10000))

\* (num / den).toFixed(1) of non-negative num and den; the fraction is
\* reduced first, which keeps the products within the integers of the checker
QuotientToFixed1(num, den) ==
    IF den = 0
    THEN IF num = 0 THEN <<"N", "a", "N">>
         ELSE <<"I", "n", "f", "i", "n", "i", "t", "y">>
    ELSE LET g == Gcd(num, den)
         IN  Fixed1(RoundHalfUp((num \div g) * 10, den \div g))

\* the panel before any calculation; the texts of the markup are not part of
\* the source
NoResults ==
    [active |-> FALSE, resultEntry |-> <<>>, resultInvestment |-> <<>>,
     resultTP |-> <<>>, resultSL |-> <<>>, maxProfit |-> <<>>,
     maxLoss |-> <<>>, perShareTPDisplay |-> <<>>, perShareSLDisplay |-> <<>>,
     riskReward |-> <<>>]

\* variant that leaves the take-profit percentage out
TpPrice_Flat(basePrice, tpPercent) == basePrice * 10000

\* basePrice * (1 + tpPercent / 100), in millionths
TpPrice(basePrice, tpPercent) == basePrice * (10000 + tpPercent)

\* basePrice * (1 - slPercent / 100), in millionths
SlPrice(basePrice, slPercent) == basePrice * (10000 - slPercent)

\* the texts calculateTradeLevels writes, the amounts being in millionths
\* but for basePrice and investment, which are in hundredths
ResultTexts(basePrice, investment, tpPrice, slPrice, profit, loss, perTP, perSL) ==
    [active |-> TRUE,
     resultEntry |-> <<"$">> \o HundredthsToFixed2(basePrice),
     resultInvestment |-> <<"$">> \o HundredthsToFixed2(investment),
     resultTP |-> <<"$">> \o MillionthsToFixed2(tpPrice),
     resultSL |-> <<"$">> \o MillionthsToFixed2(slPrice),
     maxProfit |-> <<"+", "$">> \o MillionthsToFixed2(profit),
     maxLoss |-> <<"-", "$">> \o MillionthsToFixed2(loss),
     perShareTPDisplay |-> <<"+", "$">> \o MillionthsToFixed2(perTP),
     perShareSLDisplay |-> <<"-", "$">> \o MillionthsToFixed2(perSL),
     riskReward |-> <<"1", ":">> \o QuotientToFixed1(profit, loss)]

\* the amounts calculateTradeLevels derives from the two prices it computed
Amounts(basePrice, quantity, tpPrice, slPrice) ==
    ResultTexts(basePrice, basePrice * quantity, tpPrice, slPrice,
                (tpPrice - basePrice * 10000) * quantity,
                (basePrice * 10000 - slPrice) * quantity,
                tpPrice - basePrice * 10000,
                basePrice * 10000 - slPrice)

\* the validation of calculateTradeLevels
IsValid(mode, currentPrice, targetPrice, quantity, tpPercent, slPercent) ==
    /\ currentPrice > 0
    /\ mode = "target" => targetPrice > 0
    /\ quantity > 0
    /\ tpPercent >= 0
    /\ slPercent >= 0

\* variant that hides the panel when the validation fails
Calculated_Hides(s, currentPrice, targetPrice, quantity, tpPercent, slPercent) ==
    IF ~IsValid(s.calculationMode, currentPrice, targetPrice, quantity,
                tpPercent, slPercent)
    THEN [s EXCEPT !.results = NoResults]
    ELSE IF s.calculationMode = "target"
    THEN [s EXCEPT !.results =
            Amounts(targetPrice, quantity, TpPrice(targetPrice, tpPercent),
                    SlPrice(targetPrice, slPercent))]
    ELSE [s EXCEPT !.results =
            Amounts(currentPrice, quantity, TpPrice(currentPrice, tpPercent),
                    SlPrice(currentPrice, slPercent))]

\* calculateTradeLevels once it has read its five inputs
Calculated(s, currentPrice, targetPrice, quantity, tpPercent, slPercent) ==
    IF ~IsValid(s.calculationMode, currentPrice, targetPrice, quantity,
                tpPercent, slPercent)
    THEN s
    ELSE IF s.calculationMode = "target"
    THEN [s EXCEPT !.results =
            Amounts(targetPrice, quantity, TpPrice(targetPrice, tpPercent),
                    SlPrice(targetPrice, slPercent))]
    ELSE [s EXCEPT !.results =
            Amounts(currentPrice, quantity, TpPrice(currentPrice, tpPercent),
                    SlPrice(currentPrice, slPercent))]

calculateTradeLevels(s) ==
    Calculated(s, parseFloat(s.form.entryPrice), parseFloat(s.form.targetPrice),
               parseInt(s.form.quantity), parseFloat(s.form.tpPercent),
               parseFloat(s.form.slPercent))

\* the guard of autoCalculate on the inputs it has read
EnoughToCalculate(mode, currentPrice, targetPrice, quantity) ==
    /\ currentPrice > 0
    /\ quantity > 0
    /\ ~(mode = "target" /\ ~(targetPrice > 0))

autoCalculate(s) ==
    IF EnoughToCalculate(s.calculationMode, parseFloat(s.form.entryPrice),
                         parseFloat(s.form.targetPrice), parseInt(s.form.quantity))
    THEN calculateTradeLevels(s)
    ELSE s

\* x.toFixed(2) of the x millionths the card computed, NaN when one of the
\* inputs x was computed from is NaN
CardFixed2(defined, x) ==
    IF defined THEN MillionthsToFixed2(x) ELSE <<"N", "a", "N">>

\* (maxProfit / maxLoss).toFixed(1) as the card computes it
CardRatio(defined, num, den) ==
    IF ~defined THEN <<"N", "a", "N">>
    ELSE LET absNum == IF num < 0 THEN 0 - num ELSE num
             absDen == IF den < 0 THEN 0 - den ELSE den
             minus == num # 0 /\ ((num < 0) # (den < 0))
         IN  (IF minus THEN <<"-">> ELSE <<>>) \o QuotientToFixed1(absNum, absDen)

\* the amounts of the card text, computed from the four inputs it reads;
\* the date, the title and the MYR amounts are left out
TradeCard(entryPrice, quantity, tpPercent, slPercent) ==
    LET hasP == entryPrice # NaN
        hasQ == quantity # NaN
        hasT == tpPercent # NaN
        hasL == slPercent # NaN
    IN  [produced |-> TRUE,
         entryPrice |-> <<"$">> \o CardFixed2(hasP, entryPrice * 10000),
         investment |->
            <<"$">> \o CardFixed2(hasP /\ hasQ, entryPrice * quantity * 10000),
         tpPrice |->
            <<"$">> \o CardFixed2(hasP /\ hasT, TpPrice(entryPrice, tpPercent)),
         slPrice |->
            <<"$">> \o CardFixed2(hasP /\ hasL, SlPrice(entryPrice, slPercent)),
         maxProfit |->
            <<"+", "$">> \o CardFixed2(hasP /\ hasT /\ hasQ,
                                       entryPrice * tpPercent * quantity),
         maxLoss |->
            <<"-", "$">> \o CardFixed2(hasP /\ hasL /\ hasQ,
                                       entryPrice * slPercent * quantity),
         ratio |->
            <<"1", ":">> \o CardRatio(hasP /\ hasQ /\ hasT /\ hasL,
                                      entryPrice * tpPercent * quantity,
                                      entryPrice * slPercent * quantity)]

\* no card: the alert of exportTradeCard
NoCard ==
    [produced |-> FALSE, entryPrice |-> <<>>, investment |-> <<>>,
     tpPrice |-> <<>>, slPrice |-> <<>>, maxProfit |-> <<>>, maxLoss |-> <<>>,
     ratio |-> <<>>]

\* the card exportTradeCard copies to the clipboard; it changes no state
exportTradeCard(s) ==
    IF ~s.results.active THEN NoCard
    ELSE TradeCard(parseFloat(s.form.entryPrice), parseInt(s.form.quantity),
                   parseFloat(s.form.tpPercent), parseFloat(s.form.slPercent))

(***************************************************************************)
(* Persistence and Form Sync.                                              *)
(***************************************************************************)
saveTabsToStorage(s) ==
    [s EXCEPT !.localStorage.stockTabs = <<Serialize(s.tabs)>>,
              !.localStorage.activeTabId = s.activeTabId]

\* the assignments of saveCurrentTabState to the active record
FlushedRecord(tab, s) ==
    [tab EXCEPT !.stockSymbol = Trim(s.form.stockSymbol),
                !.entryPrice = s.form.entryPrice,
                !.targetPrice = s.form.targetPrice,
                !.quantity = s.form.quantity,
                !.tpPercent = s.form.tpPercent,
                !.slPercent = s.form.slPercent,
                !.autoPriceEnabled = s.autoPriceEnabled,
                !.calculationMode = s.calculationMode]

\* variant that flushes into the first record of the collection
saveCurrentTabState_First(s) ==
    IF s.isLoadingTabState THEN s
    ELSE IF FindIndex(s.tabs, s.activeTabId) = 0 THEN s
    ELSE saveTabsToStorage([s EXCEPT !.tabs[1] = FlushedRecord(s.tabs[1], s)])

\* variant that flushes during a load too
saveCurrentTabState_Always(s) ==
    LET i == FindIndex(s.tabs, s.activeTabId)
    IN  IF i = 0 THEN s
        ELSE saveTabsToStorage(
                [s EXCEPT !.tabs[i] = FlushedRecord(s.tabs[i], s)])

saveCurrentTabState(s) ==
    IF s.isLoadingTabState THEN s
    ELSE LET i == FindIndex(s.tabs, s.activeTabId)
         IN  IF i = 0 THEN s
             ELSE saveTabsToStorage(
                    [s EXCEPT !.tabs[i] = FlushedRecord(s.tabs[i], s)])

\* variant without the clearTimeout
debouncedSaveTabState_NoClear(s) ==
    IF s.isLoadingTabState THEN s
    ELSE [s EXCEPT !.saveTimers = @ + 1]

\* clearTimeout of the pending timer, then a new one
debouncedSaveTabState(s) ==
    IF s.isLoadingTabState THEN s
    ELSE [s EXCEPT !.saveTimers = 1]

\* the form values loadTabState writes
LoadedForm(tab) ==
    [stockSymbol |-> OrEmpty(tab.stockSymbol),
     entryPrice |-> OrEmpty(tab.entryPrice),
     targetPrice |-> OrEmpty(tab.targetPrice),
     quantity |-> OrEmpty(tab.quantity),
     tpPercent |-> OrEmpty(tab.tpPercent),
     slPercent |-> OrEmpty(tab.slPercent)]

loadTabState(s, tabId) ==
    LET i == FindIndex(s.tabs, tabId)
    IN  IF i = 0 THEN s
        ELSE LET restored ==
                    [s EXCEPT
                        !.isLoadingTabState = TRUE,
                        !.form = LoadedForm(s.tabs[i]),
                        !.autoPriceEnabled = s.tabs[i].autoPriceEnabled,
                        !.calculationMode =
                            IF s.tabs[i].calculationMode # ""
                            THEN s.tabs[i].calculationMode
                            ELSE @]
                 shown == IF Truthy(s.tabs[i].entryPrice) /\ Truthy(s.tabs[i].quantity)
                          THEN autoCalculate(restored)
                          ELSE [restored EXCEPT !.results.active = FALSE]
             IN  [shown EXCEPT !.loadTimers = Min(@ + 1, MaxLoadTimers)]

\* form.reset(), the panel hidden, and the reset of the live auto-price flag
clearCalculatorForm(s) ==
    [s EXCEPT !.form = EmptyForm, !.results.active = FALSE,
              !.autoPriceEnabled = FALSE]

(***************************************************************************)
(* The poller.                                                             *)
(***************************************************************************)
\* activeTab && activeTab.autoPriceEnabled && activeTab.stockSymbol
HasAutoPrice(s) ==
    LET i == FindIndex(s.tabs, s.activeTabId)
    IN  /\ i # 0
        /\ s.tabs[i].autoPriceEnabled
        /\ Truthy(s.tabs[i].stockSymbol)

\* variant that asks for a quote whatever the record says
fetchPriceForActiveTab_Unchecked(s) ==
    LET i == FindIndex(s.tabs, s.activeTabId)
    IN  IF i = 0 THEN s
        ELSE [s EXCEPT !.inflight = @ \cup
                {[kind |-> "poll",
                  symbol |-> ToUpperCase(Trim(s.tabs[i].stockSymbol)),
                  obj |-> s.tabs[i].obj]}]

\* fetchPriceForActiveTab up to its await: the request is in flight
fetchPriceForActiveTab(s) ==
    LET i == FindIndex(s.tabs, s.activeTabId)
    IN  IF i = 0 THEN s
        ELSE IF ~s.tabs[i].autoPriceEnabled \/ ~Truthy(s.tabs[i].stockSymbol) THEN s
        ELSE LET symbol == ToUpperCase(Trim(s.tabs[i].stockSymbol))
             IN  IF ~Truthy(symbol) THEN s
                 ELSE [s EXCEPT !.inflight = @ \cup
                         {[kind |-> "poll", symbol |-> symbol,
                           obj |-> s.tabs[i].obj]}]

\* variant that leaves the running interval timer in place
startAutoFetchInterval_NoClear(s) ==
    IF HasAutoPrice(s)
    THEN [fetchPriceForActiveTab(s) EXCEPT
            !.autoFetchIntervalId = TRUE,
            !.intervalTimers = @ + 1]
    ELSE s

startAutoFetchInterval(s) ==
    LET cleared == IF s.autoFetchIntervalId
                   THEN [s EXCEPT !.intervalTimers = @ - 1]
                   ELSE s
    IN  IF HasAutoPrice(cleared)
        THEN [fetchPriceForActiveTab(cleared) EXCEPT
                !.autoFetchIntervalId = TRUE,
                !.intervalTimers = @ + 1]
        ELSE cleared

stopAutoFetchInterval(s) ==
    IF s.autoFetchIntervalId
    THEN [s EXCEPT !.intervalTimers = @ - 1, !.autoFetchIntervalId = FALSE]
    ELSE s

checkAutoFetchInterval(s) ==
    IF HasAutoPrice(s) /\ ~s.autoFetchIntervalId THEN startAutoFetchInterval(s)
    ELSE IF ~HasAutoPrice(s) /\ s.autoFetchIntervalId THEN stopAutoFetchInterval(s)
    ELSE IF HasAutoPrice(s) /\ s.autoFetchIntervalId THEN startAutoFetchInterval(s)
    ELSE s

(***************************************************************************)
(* The Tab Store.                                                          *)
(***************************************************************************)
\* 'tab_' + Date.now() + '_' + Math.random().toString(36).substr(2, 9)
generateTabId(s, r) == <<s.now, r>>

\* variants of the capacity guard: off by one, and absent
TabLimitReached_OffByOne(ts) == Len(ts) > MAX_TABS

TabLimitReached_Never(ts) == FALSE

\* tabs.length >= MAX_TABS
TabLimitReached(ts) == Len(ts) >= MAX_TABS

NewTab(s, r) ==
    [id |-> generateTabId(s, r), name |-> "New Tab", stockSymbol |-> <<>>,
     entryPrice |-> <<>>, targetPrice |-> <<>>, quantity |-> <<>>,
     tpPercent |-> <<>>, slPercent |-> <<>>, autoPriceEnabled |-> FALSE,
     calculationMode |-> "current", createdAt |-> s.now, obj |-> NewObj(s)]

addNewTab(s, r) ==
    IF TabLimitReached(s.tabs) THEN s
    ELSE LET saved == IF s.activeTabId # NULL THEN saveCurrentTabState(s) ELSE s
             newTab == NewTab(saved, r)
             pushed == [saved EXCEPT !.tabs = Append(@, newTab),
                                     !.activeTabId = newTab.id]
         IN  clearCalculatorForm(saveTabsToStorage(pushed))

switchTab(s, tabId) ==
    IF tabId = s.activeTabId THEN s
    ELSE LET saved == IF s.activeTabId # NULL THEN saveCurrentTabState(s) ELSE s
             switched == [saved EXCEPT !.activeTabId = tabId,
                                       !.localStorage.activeTabId = tabId]
         IN  checkAutoFetchInterval(loadTabState(switched, tabId))

\* variant of the last-tab guard that never refuses
IsLastTab_Never(ts) == Len(ts) = 0

\* tabs.length === 1
IsLastTab(ts) == Len(ts) = 1

\* variant that always selects the first record
NewActiveIndex_First(tabIndex) == 0

\* Math.max(0, tabIndex - 1), 0-based
NewActiveIndex(tabIndex) == Max(0, tabIndex - 1)

\* variant that leaves the quote cache alone
EvictOnClose_None(s, tab) == s

\* the stockPrice_ key closeTab removes for the record it closes
EvictOnClose(s, tab) ==
    [s EXCEPT !.localStorage.prices = RemoveItem(@, ToUpperCase(tab.stockSymbol))]

\* variant that keeps the old active pointer
ReselectAfterClose_Keep(s, tabId, tabIndex) == s

\* if (tabId === activeTabId): the new active tab is chosen and loaded
ReselectAfterClose(s, tabId, tabIndex) ==
    IF tabId = s.activeTabId
    THEN LET newId == s.tabs[NewActiveIndex(tabIndex) + 1].id
         IN  loadTabState(
                [s EXCEPT !.activeTabId = newId,
                          !.localStorage.activeTabId = newId], newId)
    ELSE s

\* tabs[newActiveIndex] is undefined: reading its id throws a TypeError
ReselectThrows(s, tabId, tabIndex) ==
    /\ tabId = s.activeTabId
    /\ NewActiveIndex(tabIndex) + 1 > Len(s.tabs)

\* confirmed: the answer to confirm(), asked only for a record with a symbol
closeTab(s, tabId, confirmed) ==
    IF IsLastTab(s.tabs) THEN s
    ELSE LET i == FindIndex(s.tabs, tabId)
             hasSymbol == i # 0 /\ Truthy(s.tabs[i].stockSymbol)
         IN  IF hasSymbol /\ ~confirmed THEN s
             ELSE LET evicted == IF hasSymbol THEN EvictOnClose(s, s.tabs[i]) ELSE s
                      removed == [evicted EXCEPT !.tabs = SpliceOut(@, i - 1)]
                  IN  IF ReselectThrows(removed, tabId, i - 1) THEN removed
                      ELSE checkAutoFetchInterval(
                             saveTabsToStorage(
                                ReselectAfterClose(removed, tabId, i - 1)))

reorderTabs(s, draggedId, dropTargetId) ==
    LET draggedIndex == FindIndex(s.tabs, draggedId)
        dropIndex == FindIndex(s.tabs, dropTargetId)
    IN  IF draggedIndex = 0 \/ dropIndex = 0 THEN s
        ELSE saveTabsToStorage(
                [s EXCEPT !.tabs = SpliceIn(SpliceOut(@, draggedIndex - 1),
                                            dropIndex - 1, s.tabs[draggedIndex])])

handleDrop(s, draggedTabId, dropTabId) ==
    IF draggedTabId # dropTabId THEN reorderTabs(s, draggedTabId, dropTabId) ELSE s

\* the stockPrice_ keys of every record with a symbol
EvictAll(s) ==
    [s EXCEPT !.localStorage.prices =
        {e \in @ : \A i \in 1..Len(s.tabs) :
            ~Truthy(s.tabs[i].stockSymbol)
            \/ e.symbol # ToUpperCase(s.tabs[i].stockSymbol)}]

\* r: the Math.random() of the addNewTab it ends with
\* variant that does not wait for confirm()
clearAllTabs_Unasked(s, confirmed, r) ==
    addNewTab(
        [EvictAll(s) EXCEPT !.tabs = <<>>, !.activeTabId = NULL,
                            !.localStorage.stockTabs = <<>>,
                            !.localStorage.activeTabId = NULL], r)

clearAllTabs(s, confirmed, r) ==
    IF ~confirmed THEN s
    ELSE addNewTab(
            [EvictAll(s) EXCEPT !.tabs = <<>>, !.activeTabId = NULL,
                                !.localStorage.stockTabs = <<>>,
                                !.localStorage.activeTabId = NULL], r)

(***************************************************************************)
(* The quote cache and the foreground fetch.                               *)
(***************************************************************************)
\* variant of the freshness test that lets an entry live one tick longer
IsFresh_Inclusive(s, e) == s.now - e.timestamp <= PRICE_CACHE_DURATION

\* now - data.timestamp < PRICE_CACHE_DURATION
IsFresh(s, e) == s.now - e.timestamp < PRICE_CACHE_DURATION

\* what getCachedPrice returns: the entry of the key, if fresh
getCachedPrice(s, symbol) ==
    {e \in GetItem(s.localStorage.prices, symbol) : IsFresh(s, e)}

\* what getCachedPrice does to the store: an expired entry is removed
DropExpired(s, symbol) ==
    [s EXCEPT !.localStorage.prices =
        {e \in @ : e.symbol # symbol \/ IsFresh(s, e)}]

cachePrice(s, symbol, price) ==
    [s EXCEPT !.localStorage.prices =
        RemoveItem(@, symbol) \cup
        {[symbol |-> symbol, price |-> price, timestamp |-> s.now]}]

\* the 'input' listeners of the five number fields: autoCalculate() writes
\* the results panel, debouncedSaveTabState() schedules the flush
NumberInputListener(s) == debouncedSaveTabState(autoCalculate(s))

\* fetchStockPrice up to its await
fetchStockPrice(s, symbol) ==
    IF ~Truthy(symbol) \/ ~s.autoPriceEnabled THEN s
    ELSE LET upperSymbol == ToUpperCase(symbol)
             cachedData == getCachedPrice(s, upperSymbol)
             checked == DropExpired(s, upperSymbol)
         IN  IF cachedData # {}
             THEN LET data == CHOOSE e \in cachedData : TRUE
                  IN  NumberInputListener(
                        [checked EXCEPT !.form.entryPrice = ToFixed2(data.price)])
             ELSE [checked EXCEPT !.inflight = @ \cup
                     {[kind |-> "foreground", symbol |-> upperSymbol, obj |-> 0]}]

\* fetchStockPrice after its await; price 0 stands for every failure
fetchStockPriceDone(s, req, price) ==
    LET answered == [s EXCEPT !.inflight = @ \ {req}]
    IN  IF price > 0
        THEN NumberInputListener(
                [cachePrice(answered, req.symbol, price) EXCEPT
                    !.form.entryPrice = ToFixed2(price)])
        ELSE answered

\* variant of the poll cycle's completion that does not persist the record
fetchPriceForActiveTabDone_Unsaved(s, req, price) ==
    LET answered == [s EXCEPT !.inflight = @ \ {req}]
    IN  IF price > 0
        THEN autoCalculate(
                [cachePrice(answered, req.symbol, price) EXCEPT
                    !.tabs = [i \in 1..Len(@) |->
                                IF @[i].obj = req.obj
                                THEN [@[i] EXCEPT !.entryPrice = ToFixed2(price)]
                                ELSE @[i]],
                    !.form.entryPrice = ToFixed2(price)])
        ELSE answered

\* variant of the poll cycle's completion that blanks the price on a failure
fetchPriceForActiveTabDone_Blanks(s, req, price) ==
    LET answered == [s EXCEPT !.inflight = @ \ {req}]
    IN  IF price > 0
        THEN LET cached == cachePrice(answered, req.symbol, price)
             IN  saveTabsToStorage(autoCalculate(
                    [cached EXCEPT
                        !.tabs = [i \in 1..Len(@) |->
                                    IF @[i].obj = req.obj
                                    THEN [@[i] EXCEPT !.entryPrice = ToFixed2(price)]
                                    ELSE @[i]],
                        !.form.entryPrice = ToFixed2(price)]))
        ELSE [answered EXCEPT !.form.entryPrice = <<>>]

\* fetchPriceForActiveTab after its await; activeTab is the object it read
fetchPriceForActiveTabDone(s, req, price) ==
    LET answered == [s EXCEPT !.inflight = @ \ {req}]
    IN  IF price > 0
        THEN LET cached == cachePrice(answered, req.symbol, price)
             IN  saveTabsToStorage(autoCalculate(
                    [cached EXCEPT
                        !.tabs = [i \in 1..Len(@) |->
                                    IF @[i].obj = req.obj
                                    THEN [@[i] EXCEPT !.entryPrice = ToFixed2(price)]
                                    ELSE @[i]],
                        !.form.entryPrice = ToFixed2(price)]))
        ELSE answered

\* variant of the sweep that empties the quote cache
cleanupOrphanedCache_All(s) == [s EXCEPT !.localStorage.prices = {}]

cleanupOrphanedCache(s) ==
    LET activeSymbols ==
            {ToUpperCase(s.tabs[i].stockSymbol) :
                i \in {j \in 1..Len(s.tabs) : Truthy(s.tabs[j].stockSymbol)}}
    IN  [s EXCEPT !.localStorage.prices = {e \in @ : e.symbol \in activeSymbols}]

(***************************************************************************)
(* Toggles and the symbol field.                                           *)
(***************************************************************************)
toggleAutoPrice(s) ==
    LET toggled == [s EXCEPT !.autoPriceEnabled = ~@]
        stockSymbol == Trim(s.form.stockSymbol)
        fetched == IF toggled.autoPriceEnabled /\ Truthy(stockSymbol)
                   THEN fetchStockPrice(toggled, stockSymbol)
                   ELSE toggled
        saved == IF fetched.activeTabId # NULL THEN saveCurrentTabState(fetched)
                 ELSE fetched
    IN  checkAutoFetchInterval(saved)

setCalculationMode(s, mode) ==
    LET set == [s EXCEPT !.calculationMode = mode]
    IN  autoCalculate(IF set.activeTabId # NULL THEN saveCurrentTabState(set)
                      ELSE set)

\* the 'input' listener of the symbol field registered at line 2419
SymbolFetchListener(s) ==
    LET symbol == Trim(s.form.stockSymbol)
        cleared == [s EXCEPT !.symbolTimer = NULL]
        emptied == IF cleared.autoPriceEnabled /\ ~Truthy(symbol)
                   THEN [cleared EXCEPT !.form.entryPrice = <<>>]
                   ELSE cleared
    IN  IF Truthy(symbol) /\ emptied.autoPriceEnabled
        THEN [emptied EXCEPT !.symbolTimer = symbol]
        ELSE emptied

\* the 'input' listener of the symbol field registered at line 1254
SymbolSaveListener(s) ==
    IF s.activeTabId # NULL
    THEN checkAutoFetchInterval(debouncedSaveTabState(s))
    ELSE s

(***************************************************************************)
(* Page load.                                                              *)
(***************************************************************************)
\* JSON.parse: new objects, in order
Parse(stored) ==
    [i \in 1..Len(stored) |->
        [id |-> stored[i].id, name |-> stored[i].name,
         stockSymbol |-> stored[i].stockSymbol, entryPrice |-> stored[i].entryPrice,
         targetPrice |-> stored[i].targetPrice, quantity |-> stored[i].quantity,
         tpPercent |-> stored[i].tpPercent, slPercent |-> stored[i].slPercent,
         autoPriceEnabled |-> stored[i].autoPriceEnabled,
         calculationMode |-> stored[i].calculationMode,
         createdAt |-> stored[i].createdAt, obj |-> i]]

\* the module-level declarations: the state of a page before initTabSystem
FreshPage(storage, time) ==
    [tabs |-> <<>>, activeTabId |-> NULL, calculationMode |-> "current",
     autoPriceEnabled |-> FALSE, form |-> EmptyForm,
     isLoadingTabState |-> FALSE, loadTimers |-> 0, saveTimers |-> 0,
     symbolTimer |-> NULL, autoFetchIntervalId |-> FALSE, intervalTimers |-> 0,
     localStorage |-> storage, inflight |-> {}, now |-> time,
     cleanupPending |-> FALSE, results |-> NoResults]

EmptyStorage == [stockTabs |-> <<>>, activeTabId |-> NULL, prices |-> {}]

initTabSystem(s, r) ==
    LET savedTabs == s.localStorage.stockTabs
        read == IF savedTabs # <<>>
                THEN [s EXCEPT
                        !.tabs = Parse(savedTabs[1]),
                        !.activeTabId =
                            IF s.localStorage.activeTabId # NULL
                            THEN s.localStorage.activeTabId
                            ELSE IF Len(savedTabs[1]) > 0 THEN savedTabs[1][1].id
                            ELSE NULL]
                ELSE s
        shown == IF Len(read.tabs) = 0 THEN addNewTab(read, r)
                 ELSE IF read.activeTabId # NULL
                      THEN loadTabState(read, read.activeTabId)
                      ELSE read
    IN  [checkAutoFetchInterval(shown) EXCEPT !.cleanupPending = TRUE]

(***************************************************************************)
(* The history variable: which handler ran last and what it found: the     *)
(* record closeTab was asked to close, the answer a request got, the cache *)
(* entry a lookup met, the entries the sweep met.                          *)
(***************************************************************************)
Note(op, ok) ==
    [op |-> op, ok |-> ok, idx |-> 0, to |-> 0, wasActive |-> FALSE,
     sym |-> <<>>, hit |-> FALSE, shared |-> FALSE, stale |-> FALSE,
     kept |-> FALSE]

Other == Note("other", TRUE)

\* another record than the one at position i holds the symbol of that record
SharedSymbol(ts, i) ==
    \E j \in 1..Len(ts) :
        /\ j # i
        /\ ToUpperCase(ts[j].stockSymbol) = ToUpperCase(ts[i].stockSymbol)

NoteClose(tabId, confirmed) ==
    LET i == FindIndex(tabs, tabId)
        sym == ToUpperCase(tabs[i].stockSymbol)
    IN  [op |-> "closeTab",
         ok |-> ~IsLastTab(tabs) /\ (Truthy(sym) => confirmed),
         idx |-> i,
         to |-> 0,
         wasActive |-> tabId = activeTabId,
         sym |-> sym,
         hit |-> GetItem(localStorage.prices, sym) # {},
         shared |-> SharedSymbol(tabs, i),
         stale |-> FALSE,
         kept |-> FALSE]

\* the debounced fetch of the symbol field looks the symbol up in the cache
NoteLookup(upperSymbol) ==
    [Note("fetchStockPrice", autoPriceEnabled) EXCEPT
        !.sym = upperSymbol,
        !.hit = \E e \in GetItem(localStorage.prices, upperSymbol) : IsFresh(S, e),
        !.stale = \E e \in GetItem(localStorage.prices, upperSymbol) : ~IsFresh(S, e)]

\* the debounce timer fires: the flush executes unless a load is in progress
\* or no record is active
NoteFlush ==
    [Note("flush", ~isLoadingTabState /\ FindIndex(tabs, activeTabId) # 0)
        EXCEPT !.idx = FindIndex(tabs, activeTabId)]

\* a poll cycle, of the symbol the active record holds when the timer fires
NoteCycle ==
    [Note("intervalFires", HasAutoPrice(S)) EXCEPT
        !.sym = IF FindIndex(tabs, activeTabId) = 0 THEN <<>>
                ELSE ToUpperCase(Trim(tabs[FindIndex(tabs, activeTabId)].stockSymbol))]

\* the sweep meets entries of symbols no record holds and entries to keep
NoteSweep ==
    LET held == {ToUpperCase(tabs[i].stockSymbol) : i \in 1..Len(tabs)}
    IN  [Note("cleanupOrphanedCache", TRUE) EXCEPT
            !.hit = \E e \in localStorage.prices : e.symbol \notin held,
            !.kept = \E e \in localStorage.prices : e.symbol \in held]

(***************************************************************************)
(* Initial state: the page is opened on an empty localStorage, or on the   *)
(* localStorage an earlier visit left.                                     *)
(***************************************************************************)
\* what a visit leaves in which the user typed a symbol and switched
\* auto-price on
EarlierVisit ==
    LET r == CHOOSE n \in Draws("distinct", <<>>, 0) : TRUE
        opened == initTabSystem(FreshPage(EmptyStorage, 0), r)
        typed == SymbolSaveListener(SymbolFetchListener(
                    [opened EXCEPT !.form.stockSymbol = SymbolList[1]]))
    IN  toggleAutoPrice(typed).localStorage

\* what a visit leaves in which the user set up two tabs, each with a symbol
\* of its own and auto-price on
TwoPollers ==
    LET r1 == CHOOSE n \in Draws("distinct", <<>>, 0) : TRUE
        opened == initTabSystem(FreshPage(EmptyStorage, 0), r1)
        first == toggleAutoPrice(SymbolSaveListener(SymbolFetchListener(
                    [opened EXCEPT !.form.stockSymbol = SymbolList[1]])))
        r2 == CHOOSE n \in Draws("distinct", first.tabs, 0) : TRUE
        added == addNewTab(first, r2)
        second == toggleAutoPrice(SymbolSaveListener(SymbolFetchListener(
                    [added EXCEPT !.form.stockSymbol = SymbolList[3]])))
    IN  second.localStorage

\* what a visit leaves in which the user chose the mode and filled the five
\* number fields of the one tab
MathVisit(mode, entryPrice, targetPrice, quantity, tpPercent, slPercent) ==
    LET r == CHOOSE n \in Draws("distinct", <<>>, 0) : TRUE
        opened == initTabSystem(FreshPage(EmptyStorage, 0), r)
        chosen == setCalculationMode(opened, mode)
        typed1 == NumberInputListener([chosen EXCEPT !.form.entryPrice = entryPrice])
        typed2 == NumberInputListener([typed1 EXCEPT !.form.targetPrice = targetPrice])
        typed3 == NumberInputListener([typed2 EXCEPT !.form.quantity = quantity])
        typed4 == NumberInputListener([typed3 EXCEPT !.form.tpPercent = tpPercent])
        typed5 == NumberInputListener([typed4 EXCEPT !.form.slPercent = slPercent])
    IN  saveCurrentTabState([typed5 EXCEPT !.saveTimers = 0]).localStorage

\* the prices, quantities and percentages such a visit may have left
MathPrices == {<<>>} \cup {Digits(k * PriceStep) : k \in 0..MaxPriceSteps}

MathQuantities == {<<>>} \cup {Digits(k * QuantityStep) : k \in 0..MaxQuantitySteps}

MathPercents == {<<>>, <<"-", "1">>} \cup {Digits(k) : k \in 0..MaxPercent}

InitWith(mode, budget, storages) ==
    \E storage \in storages, r \in Draws(mode, <<>>, 0) :
        LET s == initTabSystem(FreshPage(storage, 0), r)
        IN  /\ tabs = s.tabs
            /\ activeTabId = s.activeTabId
            /\ calculationMode = s.calculationMode
            /\ autoPriceEnabled = s.autoPriceEnabled
            /\ form = s.form
            /\ isLoadingTabState = s.isLoadingTabState
            /\ loadTimers = s.loadTimers
            /\ saveTimers = s.saveTimers
            /\ symbolTimer = s.symbolTimer
            /\ autoFetchIntervalId = s.autoFetchIntervalId
            /\ intervalTimers = s.intervalTimers
            /\ localStorage = s.localStorage
            /\ inflight = s.inflight
            /\ now = s.now
            /\ cleanupPending = s.cleanupPending
            /\ results = s.results
            /\ edits = budget
            /\ randomDraws = mode
            /\ last = Other

\* an empty storage with MaxEdits edits to come, or an earlier visit's storage
\* with its poller running and no further edit
Init ==
    \/ InitWith("distinct", MaxEdits, {EmptyStorage})
    \/ InitWith("distinct", 0, {EarlierVisit})

(***************************************************************************)
(* Actions: the user's gestures on the rendered page.                      *)
(***************************************************************************)
AddNewTab ==
    \E r \in Draws(randomDraws, tabs, now) :
        /\ Apply(addNewTab(S, r))
        /\ last' = Note("addNewTab", ~TabLimitReached(tabs))
        /\ UNCHANGED <<edits, randomDraws>>

\* a click on a rendered tab
SwitchTab ==
    \E i \in 1..Len(tabs) :
        /\ Apply(switchTab(S, tabs[i].id))
        /\ last' = Other
        /\ UNCHANGED <<edits, randomDraws>>

\* a click on the close button of a rendered tab, and the answer to confirm()
CloseTab ==
    \E i \in 1..Len(tabs), confirmed \in BOOLEAN :
        /\ Apply(closeTab(S, tabs[i].id, confirmed))
        /\ last' = NoteClose(tabs[i].id, confirmed)
        /\ UNCHANGED <<edits, randomDraws>>

\* a rendered tab is dropped on a rendered tab
HandleDrop ==
    \E i \in 1..Len(tabs), j \in 1..Len(tabs) :
        /\ Apply(handleDrop(S, tabs[i].id, tabs[j].id))
        /\ last' = [Note("handleDrop", i # j) EXCEPT !.idx = i, !.to = j]
        /\ UNCHANGED <<edits, randomDraws>>

ClearAllTabs ==
    \E confirmed \in BOOLEAN, r \in Draws(randomDraws, <<>>, now) :
        /\ Apply(clearAllTabs(S, confirmed, r))
        /\ last' = Note("clearAllTabs", confirmed)
        /\ UNCHANGED <<edits, randomDraws>>

ToggleAutoPrice ==
    /\ edits > 0
    /\ Apply(toggleAutoPrice(S))
    /\ last' = Other
    /\ edits' = edits - 1
    /\ UNCHANGED randomDraws

SetCalculationMode ==
    /\ edits > 0
    /\ \E mode \in Modes : Apply(setCalculationMode(S, mode))
    /\ last' = Other
    /\ edits' = edits - 1
    /\ UNCHANGED randomDraws

\* the user changes the symbol field: both 'input' listeners run
SymbolInput ==
    /\ edits > 0
    /\ \E v \in SymbolInputs \ {form.stockSymbol} :
        Apply(SymbolSaveListener(SymbolFetchListener(
                [S EXCEPT !.form.stockSymbol = v])))
    /\ edits' = edits - 1
    /\ UNCHANGED randomDraws
    /\ last' = Note("input", saveTimers > 0 /\ ~isLoadingTabState)

\* the user changes one of the five number fields
NumberInput ==
    /\ edits > 0
    /\ \E f \in NumberFields :
        \E v \in NumberInputs \ {form[f]} :
            Apply(NumberInputListener([S EXCEPT !.form[f] = v]))
    /\ edits' = edits - 1
    /\ UNCHANGED randomDraws
    /\ last' = Note("input", saveTimers > 0 /\ ~isLoadingTabState)

\* the page is reloaded: every timer and pending response goes with it
Reload ==
    \E r \in Draws(randomDraws, <<>>, now) :
        /\ Apply(initTabSystem(FreshPage(localStorage, now), r))
        /\ last' = Other
        /\ UNCHANGED <<edits, randomDraws>>

(***************************************************************************)
(* Actions: timers, responses, the clock.                                  *)
(***************************************************************************)
\* setTimeout(() => { isLoadingTabState = false }, 100)
LoadTimerFires ==
    /\ loadTimers > 0
    /\ Apply([S EXCEPT !.isLoadingTabState = FALSE, !.loadTimers = @ - 1])
    /\ last' = Other
    /\ UNCHANGED <<edits, randomDraws>>

\* setTimeout(() => { saveCurrentTabState() }, 300)
SaveTimerFires ==
    /\ saveTimers > 0
    /\ Apply(saveCurrentTabState([S EXCEPT !.saveTimers = @ - 1]))
    /\ last' = NoteFlush
    /\ UNCHANGED <<edits, randomDraws>>

\* setTimeout(() => { fetchStockPrice(symbol) }, 500)
SymbolTimerFires ==
    /\ symbolTimer # NULL
    /\ Apply(fetchStockPrice([S EXCEPT !.symbolTimer = NULL], symbolTimer))
    /\ last' = NoteLookup(ToUpperCase(symbolTimer))
    /\ UNCHANGED <<edits, randomDraws>>

\* setInterval(() => { fetchPriceForActiveTab() }, AUTO_FETCH_INTERVAL)
IntervalFires ==
    /\ intervalTimers > 0
    /\ Apply(fetchPriceForActiveTab(S))
    /\ last' = NoteCycle
    /\ UNCHANGED <<edits, randomDraws>>

\* setTimeout(() => { cleanupOrphanedCache() }, 1000)
CleanupFires ==
    /\ cleanupPending
    /\ Apply(cleanupOrphanedCache([S EXCEPT !.cleanupPending = FALSE]))
    /\ last' = NoteSweep
    /\ UNCHANGED <<edits, randomDraws>>

\* a response, or a failure, of the quote provider
Response ==
    \E req \in inflight, price \in {0} \cup Quotes :
        /\ Apply(IF req.kind = "poll"
                 THEN fetchPriceForActiveTabDone(S, req, price)
                 ELSE fetchStockPriceDone(S, req, price))
        /\ last' = [Note(IF req.kind = "poll" THEN "pollResponse"
                                              ELSE "fetchResponse", price > 0)
                        EXCEPT !.sym = req.symbol]
        /\ UNCHANGED <<edits, randomDraws>>

Tick ==
    /\ now < MaxTime
    /\ Apply([S EXCEPT !.now = @ + 1])
    /\ last' = Other
    /\ UNCHANGED <<edits, randomDraws>>

Next ==
    \/ AddNewTab
    \/ SwitchTab
    \/ CloseTab
    \/ HandleDrop
    \/ ClearAllTabs
    \/ ToggleAutoPrice
    \/ SetCalculationMode
    \/ SymbolInput
    \/ NumberInput
    \/ Reload
    \/ LoadTimerFires
    \/ SaveTimerFires
    \/ IntervalFires
    \/ CleanupFires
    \/ Response

\* the tab store and form sync within one freshness window of the cache.
\* The debounce of the symbol field starts only when a symbol is typed with
\* auto-price on, which takes two edits: its timer is part of SpecCache.
Spec == Init /\ [][Next]_vars

\* the same with the clock advancing
NextClock == Next \/ SymbolTimerFires \/ Tick

SpecClock == Init /\ [][NextClock]_vars

\* symbols, auto-price and the quote cache: more edits, fewer tabs and gestures
AddCacheTab == Len(tabs) < CacheTabs /\ AddNewTab

InitCache == InitWith("distinct", MaxCacheEdits, {EmptyStorage})

NextCache ==
    \/ AddCacheTab
    \/ SwitchTab
    \/ CloseTab
    \/ SymbolInput
    \/ ToggleAutoPrice
    \/ LoadTimerFires
    \/ SaveTimerFires
    \/ SymbolTimerFires
    \/ IntervalFires
    \/ Response

SpecCache == InitCache /\ [][NextCache]_vars

\* keystrokes and the save debounce; a timer that is due fires
InitBurst == InitWith("distinct", MaxBurst, {EmptyStorage})

NextBurst ==
    \/ AddCacheTab
    \/ SwitchTab
    \/ SymbolInput
    \/ NumberInput
    \/ LoadTimerFires
    \/ SaveTimerFires

SpecBurst == InitBurst /\ [][NextBurst]_vars /\ WF_vars(SaveTimerFires)

\* the program without form edits, when Math.random() may repeat itself
NextIds ==
    \/ AddNewTab
    \/ SwitchTab
    \/ CloseTab
    \/ HandleDrop
    \/ ClearAllTabs
    \/ Reload
    \/ LoadTimerFires

InitIds == InitWith("any", 0, {EmptyStorage})

SpecIds == InitIds /\ [][NextIds]_vars

\* the poller and the quote cache across two tabs that both have auto-price
\* on, with the clock running past the freshness window
InitPoll == InitWith("distinct", MaxPollEdits, {TwoPollers})

NextPoll ==
    \/ SwitchTab
    \/ SymbolInput
    \/ LoadTimerFires
    \/ SaveTimerFires
    \/ SymbolTimerFires
    \/ IntervalFires
    \/ CleanupFires
    \/ Response
    \/ Tick

SpecPoll == InitPoll /\ [][NextPoll]_vars

\* Trade Math on the form a visit left filled, and one more edit of it
InitMath ==
    \E mode \in Modes, p \in MathPrices, tp \in MathPrices,
       q \in MathQuantities, t \in MathPercents, sl \in MathPercents :
        InitWith("distinct", MaxMathEdits, {MathVisit(mode, p, tp, q, t, sl)})

NextMath ==
    \/ NumberInput
    \/ SetCalculationMode
    \/ LoadTimerFires
    \/ SaveTimerFires

SpecMath == InitMath /\ [][NextMath]_vars

(***************************************************************************)
(* Properties of the Tab Store and of Form Sync.                           *)
(***************************************************************************)
\* position of the active record, 0 when activeTabId names no record
ActiveIndex == FindIndex(tabs, activeTabId)

\* the record holds the values of the form f and of the live flags
HoldsForm(rec, f, auto, mode) ==
    /\ rec.stockSymbol = Trim(f.stockSymbol)
    /\ rec.entryPrice = f.entryPrice
    /\ rec.targetPrice = f.targetPrice
    /\ rec.quantity = f.quantity
    /\ rec.tpPercent = f.tpPercent
    /\ rec.slPercent = f.slPercent
    /\ rec.autoPriceEnabled = auto
    /\ rec.calculationMode = mode

\* C1: in every state reached by create, activate, close, reorder and
\* clearAll on ids of the collection, activeTabId is the id of a record of
\* the tabs collection.
C1_ActiveTabIsMember == \E i \in 1..Len(tabs) : tabs[i].id = activeTabId

\* the active record was closed and another record of the collection is active
C1_Witness ==
    /\ last.op = "closeTab" /\ last.ok /\ last.wasActive
    /\ \E i \in 1..Len(tabs) : tabs[i].id = activeTabId

\* C2: in every reachable state no two records of the tabs collection have
\* the same id.  generateTabId does not look at the ids in use, so the
\* statement fails when two creates read the same clock and the same random
\* string.
C2_UniqueIds ==
    \A i, j \in 1..Len(tabs) : tabs[i].id = tabs[j].id => i = j

\* C3: after any sequence of create, activate, close, reorder and clearAll
\* the collection holds at least 1 and at most MAX_TABS records.
C3_SizeBounds == Len(tabs) >= 1 /\ Len(tabs) <= MAX_TABS

\* a create has just filled the collection
C3_Witness == last.op = "addNewTab" /\ last.ok /\ Len(tabs) = MAX_TABS

\* C4: when the collection holds exactly one record, closeTab changes
\* nothing: the collection, activeTabId, the persisted state, the quote
\* cache and the poller are as before, whatever confirm() would answer.
C4_CloseSoleTabRefused ==
    Len(tabs) = 1 =>
        \A c \in BOOLEAN : closeTab(S, tabs[1].id, c) = S

\* closeTab was called on the sole tab, which is still there
C4_Witness ==
    /\ last.op = "closeTab" /\ ~last.ok
    /\ Len(tabs) = 1 /\ activeTabId = tabs[1].id

\* C5: when the collection holds MAX_TABS records, addNewTab changes
\* nothing: no record is appended or modified (the active record is not
\* flushed), activeTabId and the durable storage are as before.
C5_CreateAtLimitRefused ==
    Len(tabs) >= MAX_TABS =>
        \A r \in Rand : addNewTab(S, r) = S

\* addNewTab was refused while the form held an edit its record does not hold
C5_Witness ==
    /\ last.op = "addNewTab" /\ ~last.ok /\ Len(tabs) = MAX_TABS
    /\ ~isLoadingTabState
    /\ ActiveIndex # 0
    /\ ~HoldsForm(tabs[ActiveIndex], form, autoPriceEnabled, calculationMode)

\* C6: whenever switchTab or addNewTab moves the active pointer away from
\* a tab, that tab's record afterwards holds the values the form had when
\* the operation was invoked (symbol trimmed), also while isLoadingTabState
\* is still true.  saveCurrentTabState returns early while the flag is set,
\* so the statement fails.
C6_FlushBeforeSwitch ==
    ActiveIndex # 0 =>
        /\ \A i \in 1..Len(tabs) :
              tabs[i].id # activeTabId =>
                 HoldsForm(switchTab(S, tabs[i].id).tabs[ActiveIndex],
                           form, autoPriceEnabled, calculationMode)
        /\ ~TabLimitReached(tabs) =>
              \A r \in Draws(randomDraws, tabs, now) :
                 HoldsForm(addNewTab(S, r).tabs[ActiveIndex],
                           form, autoPriceEnabled, calculationMode)

\* C7: with A active and B another tab, switchTab(B) followed at once by
\* switchTab(A) leaves the form fields, the live auto-price flag and the
\* live calculation mode as they were, and leaves B's record unchanged.
\* The flush trims the symbol and is skipped while isLoadingTabState is
\* set, so the statement fails.
C7_RoundTrip ==
    ActiveIndex # 0 =>
        \A i \in 1..Len(tabs) :
            tabs[i].id # activeTabId =>
                LET there == switchTab(S, tabs[i].id)
                    back == switchTab(there, activeTabId)
                IN  /\ back.form = form
                    /\ back.autoPriceEnabled = autoPriceEnabled
                    /\ back.calculationMode = calculationMode
                    /\ back.tabs[i] = tabs[i]

\* C8: after a confirmed closeTab of a record whose non-empty symbol no
\* other record holds, the quote cache has no entry for the uppercased
\* symbol of the closed record.
C8_CloseEvictsUnshared ==
    \A i \in 1..Len(tabs) :
        (/\ Len(tabs) > 1
         /\ FindIndex(tabs, tabs[i].id) = i
         /\ Truthy(tabs[i].stockSymbol)
         /\ ~SharedSymbol(tabs, i))
        => GetItem(closeTab(S, tabs[i].id, TRUE).localStorage.prices,
                   ToUpperCase(tabs[i].stockSymbol)) = {}

\* a record with a cached, unshared symbol was closed and the entry is gone
C8_Witness ==
    /\ last.op = "closeTab" /\ last.ok
    /\ Truthy(last.sym) /\ last.hit /\ ~last.shared
    /\ GetItem(localStorage.prices, last.sym) = {}

\* C9: closeTab of a record whose symbol another remaining record holds
\* (case-insensitively) leaves the cache entry of that symbol as it was.
\* closeTab removes the key for every record with a symbol, so the
\* statement fails.
C9_CloseKeepsShared ==
    \A i \in 1..Len(tabs) :
        (/\ Len(tabs) > 1
         /\ FindIndex(tabs, tabs[i].id) = i
         /\ Truthy(tabs[i].stockSymbol)
         /\ SharedSymbol(tabs, i)
         /\ GetItem(localStorage.prices, ToUpperCase(tabs[i].stockSymbol)) # {})
        => GetItem(closeTab(S, tabs[i].id, TRUE).localStorage.prices,
                   ToUpperCase(tabs[i].stockSymbol))
           = GetItem(localStorage.prices, ToUpperCase(tabs[i].stockSymbol))

\* C10: closeTab of the active record makes active the record that stood
\* immediately to its left, or the record that becomes first when the closed
\* record was first; closeTab of another record leaves activeTabId alone.
C10_CloseSelectsLeft ==
    \A i \in 1..Len(tabs) :
        (Len(tabs) > 1 /\ FindIndex(tabs, tabs[i].id) = i) =>
            LET closed == closeTab(S, tabs[i].id, TRUE)
            IN  /\ Len(closed.tabs) = Len(tabs) - 1
                /\ closed.activeTabId =
                      IF tabs[i].id # activeTabId THEN activeTabId
                      ELSE IF i > 1 THEN tabs[i - 1].id
                      ELSE tabs[2].id

\* the active record, third of three, was closed: the second is active
C10_Witness ==
    /\ last.op = "closeTab" /\ last.ok /\ last.wasActive /\ last.idx = 3
    /\ Len(tabs) = 2 /\ activeTabId = tabs[2].id

\* an id no record carries: Math.random() draws start at 1
MissingId == <<0, 0>>

\* the ids of the records, and one id of no record
IdsAndMissing == {tabs[i].id : i \in 1..Len(tabs)} \cup {MissingId}

\* position of the first record with the given id in a sequence, 0 if none
PositionOf(ts, id) == FindIndex(ts, id)

\* C11: reorderTabs(moved, target) with two distinct ids of the collection
\* puts the moved record at the position the target record had before the
\* call: it then immediately precedes the target when it stood to the
\* right of it, and immediately follows the target when it stood to the left.
C11_ReorderTakesTargetPosition ==
    \A i, j \in 1..Len(tabs) :
        (i # j /\ FindIndex(tabs, tabs[i].id) = i /\ FindIndex(tabs, tabs[j].id) = j) =>
            LET t == reorderTabs(S, tabs[i].id, tabs[j].id).tabs
            IN  /\ Len(t) = Len(tabs)
                /\ t[j] = tabs[i]
                /\ i > j => t[j + 1] = tabs[j]
                /\ i < j => t[j - 1] = tabs[j]

\* C11 as stated: the moved record immediately precedes the target record,
\* from whichever side it came.
C11_ReorderPrecedesTarget ==
    \A i, j \in 1..Len(tabs) :
        (i # j /\ FindIndex(tabs, tabs[i].id) = i /\ FindIndex(tabs, tabs[j].id) = j) =>
            LET t == reorderTabs(S, tabs[i].id, tabs[j].id).tabs
                k == PositionOf(t, tabs[i].id)
            IN  k # 0 /\ k < Len(t) /\ t[k + 1].id = tabs[j].id

\* the first of three records was dropped on the third and is now last
C11_Witness ==
    /\ last.op = "handleDrop" /\ last.ok /\ last.idx = 1 /\ last.to = 3
    /\ Len(tabs) = 3
    /\ tabs[3].createdAt <= tabs[1].createdAt
    /\ localStorage.stockTabs = <<Serialize(tabs)>>

\* C12: for any two ids, in the collection or not, reorderTabs leaves the
\* same records with the same field values, only in another order, leaves
\* activeTabId alone, and leaves the order alone too when an id is missing
\* or both ids are the same.
C12_ReorderOnlyPermutes ==
    \A a, b \in IdsAndMissing :
        LET t == reorderTabs(S, a, b)
        IN  /\ Len(t.tabs) = Len(tabs)
            /\ \A i \in 1..Len(tabs) :
                  Cardinality({k \in 1..Len(t.tabs) : t.tabs[k] = tabs[i]})
                  = Cardinality({k \in 1..Len(tabs) : tabs[k] = tabs[i]})
            /\ t.activeTabId = activeTabId
            /\ (a = b \/ a = MissingId \/ b = MissingId) => t.tabs = tabs

\* the active record was dragged to another position and is still active
C12_Witness ==
    /\ last.op = "handleDrop" /\ last.ok /\ last.idx = 2 /\ last.to = 1
    /\ activeTabId = tabs[1].id
    /\ Len(tabs) >= 2

\* a record as addNewTab creates it
IsDefaultRecord(rec) ==
    /\ rec.stockSymbol = <<>> /\ rec.entryPrice = <<>> /\ rec.targetPrice = <<>>
    /\ rec.quantity = <<>> /\ rec.tpPercent = <<>> /\ rec.slPercent = <<>>
    /\ rec.autoPriceEnabled = FALSE /\ rec.calculationMode = "current"

\* what a confirmed clearAllTabs leaves, but for the freshness of the id
ClearedToOneDefault(t) ==
    /\ Len(t.tabs) = 1
    /\ IsDefaultRecord(t.tabs[1])
    /\ t.activeTabId = t.tabs[1].id
    /\ t.localStorage.stockTabs = <<Serialize(t.tabs)>>
    /\ t.localStorage.activeTabId = t.tabs[1].id
    /\ \A i \in 1..Len(tabs) :
          Truthy(tabs[i].stockSymbol) =>
              GetItem(t.localStorage.prices, ToUpperCase(tabs[i].stockSymbol)) = {}

\* C13: a confirmed clearAllTabs leaves exactly one record, a default one
\* with an id that no removed record had; it is active, the persisted state
\* holds that record and pointer, and no cache entry remains for a symbol of
\* a removed record.  generateTabId does not look at the ids of the removed
\* records, so the statement fails when the clock and Math.random() repeat.
C13_ClearAllLeavesFreshRecord ==
    \A r \in Draws(randomDraws, <<>>, now) :
        LET t == clearAllTabs(S, TRUE, r)
        IN  /\ ClearedToOneDefault(t)
            /\ \A i \in 1..Len(tabs) : tabs[i].id # t.tabs[1].id

\* C14: when the user declines confirm(), closeTab of a record with a
\* non-empty symbol and clearAllTabs change nothing: tabs, activeTabId, the
\* persisted state, the quote cache, the form and the poller are as before.
C14_DeclinedConfirmChangesNothing ==
    /\ \A i \in 1..Len(tabs) :
          Truthy(tabs[i].stockSymbol) => closeTab(S, tabs[i].id, FALSE) = S
    /\ \A r \in Rand : clearAllTabs(S, FALSE, r) = S

\* the close of a record with a symbol, one of several, was declined
C14_Witness ==
    /\ last.op = "closeTab" /\ ~last.ok /\ Truthy(last.sym)
    /\ Len(tabs) >= 2
    /\ Truthy(tabs[last.idx].stockSymbol)

\* C15: in every state in which a handler has returned, the persisted
\* stockTabs is the serialised tabs collection and the persisted activeTabId
\* is activeTabId, so that a page load from the storage gives the same
\* records in the same order and the same active pointer.
C15_PersistedEqualsMemory ==
    /\ localStorage.stockTabs = <<Serialize(tabs)>>
    /\ localStorage.activeTabId = activeTabId
    /\ \A r \in Rand :
          LET t == initTabSystem(FreshPage(localStorage, now), r)
          IN  /\ Serialize(t.tabs) = Serialize(tabs)
              /\ t.activeTabId = activeTabId

\* a poll cycle has written its quote into a record, no edit was made, and
\* the persisted copy holds the quote
C15_Witness ==
    /\ edits = 0 /\ inflight = {}
    /\ Len(tabs) >= 2
    /\ \E i \in 1..Len(tabs) :
          /\ tabs[i].entryPrice = ToFixed2(MaxPrice)
          /\ localStorage.stockTabs # <<>>
          /\ localStorage.stockTabs[1][i].entryPrice = ToFixed2(MaxPrice)

\* C16: switchTab with an id of no record leaves activeTabId, in memory and
\* persisted, the tabs collection and the form as they were.  switchTab
\* assigns and persists the id before loadTabState looks it up, so the
\* statement fails.
C16_SwitchToMissingIdChangesNothing ==
    LET t == switchTab(S, MissingId)
    IN  /\ t.activeTabId = activeTabId
        /\ t.localStorage.activeTabId = localStorage.activeTabId
        /\ t.tabs = tabs
        /\ t.form = form

\* C17: closeTab with an id of no record, on a collection of two or more
\* records, removes no record, changes neither activeTabId nor the quote
\* cache, and leaves activeTabId the id of a present record.  findIndex
\* gives -1 and splice(-1, 1) removes the last record, so the statement
\* fails.
C17_CloseMissingIdChangesNothing ==
    Len(tabs) >= 2 =>
        \A c \in BOOLEAN :
            LET t == closeTab(S, MissingId, c)
            IN  /\ t.tabs = tabs
                /\ t.activeTabId = activeTabId
                /\ t.localStorage.prices = localStorage.prices
                /\ \E i \in 1..Len(t.tabs) : t.tabs[i].id = t.activeTabId

\* C18: addNewTab appends exactly one record, a default one, at the end,
\* makes it active and leaves the form empty, the live auto-price flag false
\* and the live calculation mode "current", so that a flush right after it
\* leaves the new record at its defaults.  clearCalculatorForm does not
\* reset calculationMode, so the statement fails after a tab in target mode.
C18_CreateLeavesDefaults ==
    ~TabLimitReached(tabs) =>
        \A r \in Draws(randomDraws, tabs, now) :
            LET t == addNewTab(S, r)
                n == Len(t.tabs)
            IN  /\ n = Len(tabs) + 1
                /\ \A i \in 1..Len(tabs) : t.tabs[i].id = tabs[i].id
                /\ IsDefaultRecord(t.tabs[n])
                /\ t.activeTabId = t.tabs[n].id
                /\ t.form = EmptyForm
                /\ t.autoPriceEnabled = FALSE
                /\ t.calculationMode = "current"
                /\ IsDefaultRecord(saveCurrentTabState(t).tabs[n])

\* C19: while isLoadingTabState is true, saveCurrentTabState changes
\* nothing (no record field, not activeTabId, no persisted value), and a
\* request through debouncedSaveTabState is dropped as well: no timer starts.
C19_FlushDroppedWhileLoading ==
    isLoadingTabState =>
        /\ saveCurrentTabState(S) = S
        /\ debouncedSaveTabState(S) = S
        /\ \A f \in NumberFields, v \in NumberInputs :
              LET typed == NumberInputListener([S EXCEPT !.form[f] = v])
              IN  /\ typed.saveTimers = saveTimers
                  /\ typed.tabs = tabs
                  /\ typed.localStorage = localStorage

\* a quantity was typed during a load: the record does not hold it and no
\* flush is pending
C19_Witness ==
    /\ isLoadingTabState /\ saveTimers = 0
    /\ ActiveIndex # 0
    /\ form.quantity # <<>>
    /\ tabs[ActiveIndex].quantity = <<>>

\* C20: keystrokes that arrive while a flush is pending, with no load in
\* progress, leave exactly one flush pending and write no record; the
\* pending flush does execute, once, and writes the form as it is when the
\* timer fires.
C20_DebounceCoalesces ==
    /\ [](saveTimers <= 1)
    /\ [][((NumberInput \/ SymbolInput) /\ ~isLoadingTabState)
            => (saveTimers' = 1 /\ tabs' = tabs)]_vars
    /\ [][(SaveTimerFires /\ ~isLoadingTabState /\ ActiveIndex # 0)
            => /\ saveTimers' = 0
               /\ HoldsForm(tabs'[ActiveIndex], form, autoPriceEnabled,
                            calculationMode)
               /\ localStorage'.stockTabs = <<Serialize(tabs')>>]_vars
    /\ (saveTimers = 1) ~> (saveTimers = 0)

\* the second keystroke of a burst found a flush pending: one flush is
\* pending and the record holds neither keystroke
C20_Witness ==
    /\ last.op = "input" /\ last.ok
    /\ edits = MaxBurst - 2
    /\ saveTimers = 1 /\ ~isLoadingTabState
    /\ ActiveIndex # 0
    /\ IsDefaultRecord(tabs[ActiveIndex])
    /\ form.quantity # <<>> /\ form.entryPrice # <<>>

\* the handlers a keystroke that sets the symbol field to v runs
TypeSymbol(s, v) ==
    SymbolSaveListener(SymbolFetchListener([s EXCEPT !.form.stockSymbol = v]))

\* the handlers a keystroke that sets the number field f to v runs
TypeNumber(s, f, v) == NumberInputListener([s EXCEPT !.form[f] = v])

\* the callback of the save debounce timer
SaveTimerCallback(s) == saveCurrentTabState([s EXCEPT !.saveTimers = 0])

\* after the keystroke a flush is pending, and when its timer fires the
\* active record holds the form of the keystroke, persisted
KeystrokeGetsFlushed(typed) ==
    /\ typed.saveTimers > 0
    /\ LET fired == SaveTimerCallback(typed)
       IN  /\ HoldsForm(fired.tabs[ActiveIndex], typed.form,
                        typed.autoPriceEnabled, typed.calculationMode)
           /\ fired.localStorage.stockTabs = <<Serialize(fired.tabs)>>

\* C21: after any keystroke in a bound field, in any reachable state and
\* also while isLoadingTabState is still true, a flush is pending, and when
\* nothing else happens the active record comes to hold the form values of
\* the keystroke, persisted.  debouncedSaveTabState returns early while the
\* flag is set, so the statement fails.
C21_KeystrokeSchedulesFlush ==
    ActiveIndex # 0 =>
        /\ \A f \in NumberFields :
              \A v \in NumberInputs \ {form[f]} :
                  KeystrokeGetsFlushed(TypeNumber(S, f, v))
        /\ \A v \in SymbolInputs \ {form.stockSymbol} :
              KeystrokeGetsFlushed(TypeSymbol(S, v))

\* the poller is stopped: no handle, no timer
PollerStopped(t) == ~t.autoFetchIntervalId /\ t.intervalTimers = 0

\* the poller is polling: a handle and exactly one timer
PollerPolling(t) == t.autoFetchIntervalId /\ t.intervalTimers = 1

\* C22: after toggleAutoPrice turns the live flag from on to off, in any
\* reachable state and also while isLoadingTabState is still true, the
\* interval timer is cancelled and no poll fetch is issued.  While the flag
\* is set the record keeps autoPriceEnabled = true and
\* checkAutoFetchInterval restarts the poller, so the statement fails.
C22_ToggleOffStopsPoller ==
    (autoPriceEnabled /\ ActiveIndex # 0) =>
        LET t == toggleAutoPrice(S)
        IN  /\ ~t.autoPriceEnabled
            /\ PollerStopped(t)
            /\ {req \in t.inflight : req.kind = "poll"}
                  \subseteq {req \in inflight : req.kind = "poll"}

\* C23: toggleAutoPrice turning the live flag on while the form holds a
\* non-empty symbol issues a fetch for that symbol within the operation and
\* leaves the poller polling with one interval timer.  While
\* isLoadingTabState is set the record is not updated and the poller is not
\* started, so the statement fails.
C23_ToggleOnFetchesAndPolls ==
    (~autoPriceEnabled /\ ActiveIndex # 0 /\ Truthy(Trim(form.stockSymbol))) =>
        LET t == toggleAutoPrice(S)
        IN  /\ t.autoPriceEnabled
            /\ \E req \in t.inflight :
                  req.symbol = ToUpperCase(Trim(form.stockSymbol))
            /\ PollerPolling(t)

\* the interval timer runs exactly when the active record has auto-price on
\* and a symbol
PollerFollowsActive(t) ==
    /\ t.intervalTimers \in {0, 1}
    /\ t.intervalTimers = 1 <=> HasAutoPrice(t)

\* C25: after every operation that changes which tab is active (switchTab,
\* closeTab, addNewTab, clearAllTabs) or the active tab's auto-price flag
\* (toggleAutoPrice), the interval timer runs if and only if the active
\* record has autoPriceEnabled and a non-empty symbol.  addNewTab never
\* re-evaluates the poller, so the statement fails for a tab created while
\* the poller runs.
C25_PollerFollowsActiveTab ==
    /\ \A i \in 1..Len(tabs) :
          /\ tabs[i].id # activeTabId => PollerFollowsActive(switchTab(S, tabs[i].id))
          /\ (Len(tabs) > 1 /\ tabs[i].id = activeTabId)
                => PollerFollowsActive(closeTab(S, tabs[i].id, TRUE))
    /\ ~TabLimitReached(tabs) =>
          \A r \in Draws(randomDraws, tabs, now) : PollerFollowsActive(addNewTab(S, r))
    /\ \A r \in Draws(randomDraws, <<>>, now) :
          PollerFollowsActive(clearAllTabs(S, TRUE, r))
    /\ ActiveIndex # 0 => PollerFollowsActive(toggleAutoPrice(S))

\* the uppercased, trimmed symbol a record is polled for
PolledSymbol(rec) == ToUpperCase(Trim(rec.stockSymbol))

\* what the pending debounce timer of the symbol field does when it fires
SymbolTimerCallback(s) ==
    IF s.symbolTimer # NULL
    THEN fetchStockPrice([s EXCEPT !.symbolTimer = NULL], s.symbolTimer)
    ELSE s

\* the requests a step from state s to state t issues
Issued(s, t) == t.inflight \ s.inflight

\* C24: switching from the active tab A (auto-price on, symbol X) to a tab B
\* (auto-price on, symbol Y) puts a poll request for Y in flight within
\* switchTab and leaves exactly one interval timer running, and no timer
\* that fires afterwards, the interval timer or the pending debounce timer
\* of the symbol field, issues a request for X.
C24_SwitchMovesPollerToNewTab ==
    \A i, j \in 1..Len(tabs) :
        (/\ tabs[i].id = activeTabId
         /\ i # j
         /\ tabs[i].autoPriceEnabled /\ tabs[j].autoPriceEnabled
         /\ Truthy(PolledSymbol(tabs[i])) /\ Truthy(PolledSymbol(tabs[j]))
         /\ PolledSymbol(tabs[i]) # PolledSymbol(tabs[j]))
        => LET t == switchTab(S, tabs[j].id)
           IN  /\ \E req \in t.inflight :
                    req.kind = "poll" /\ req.symbol = PolledSymbol(tabs[j])
               /\ PollerPolling(t)
               /\ \A req \in Issued(t, fetchPriceForActiveTab(t))
                             \cup Issued(t, SymbolTimerCallback(t)) :
                    req.symbol # PolledSymbol(tabs[i])

\* every symbol the user may give a tab
AllSymbols == {SymbolList[k] : k \in 1..Len(SymbolList)}

\* the state once the timers an edit left pending have fired: the debounced
\* flush, the debounced fetch of the symbol field, and the flush that the
\* fetch schedules when it fills the price from the cache
Settled(s) ==
    LET flushed == IF s.saveTimers > 0 THEN SaveTimerCallback(s) ELSE s
        fetched == SymbolTimerCallback(flushed)
    IN  IF fetched.saveTimers > 0 THEN SaveTimerCallback(fetched) ELSE fetched

\* C26: a change of the symbol re-evaluates the poller against the changed
\* symbol.  When the active record has auto-price on and no symbol, and the
\* user types a symbol, the poller is polling once the pending timers have
\* fired, with no further user event; when the active record is polled for
\* X and the user changes the symbol to Y, the edit issues no poll request
\* for X.
C26_SymbolChangeReevaluatesPoller ==
    (ActiveIndex # 0 /\ tabs[ActiveIndex].autoPriceEnabled /\ autoPriceEnabled)
    => \A v \in AllSymbols :
        LET typed == TypeSymbol(S, v)
        IN  /\ (~Truthy(tabs[ActiveIndex].stockSymbol) /\ ~Truthy(Trim(form.stockSymbol)))
                => PollerPolling(Settled(typed))
            /\ (/\ Truthy(PolledSymbol(tabs[ActiveIndex]))
                /\ PolledSymbol(tabs[ActiveIndex]) # ToUpperCase(Trim(v)))
                => \A req \in Issued(S, typed) :
                        ~(req.kind = "poll" /\ req.symbol = PolledSymbol(tabs[ActiveIndex]))

\* C27: a poll cycle that fails (network error, non-ok response, a price
\* that is missing or not positive) changes nothing but the request being
\* over: the records, the form with its price field, the live flags, the
\* poller, the quote cache and the persisted collection are as before.
C27_FailedPollLeavesValues ==
    \A req \in {q \in inflight : q.kind = "poll"} :
        fetchPriceForActiveTabDone(S, req, 0) = [S EXCEPT !.inflight = @ \ {req}]

\* a poll cycle has failed after an earlier one filled the record, the form
\* and the cache
C27_Witness ==
    /\ last.op = "pollResponse" /\ ~last.ok
    /\ ActiveIndex # 0
    /\ tabs[ActiveIndex].entryPrice # <<>>
    /\ form.entryPrice # <<>>
    /\ GetItem(localStorage.prices, last.sym) # {}

\* the keys of the quote cache: the uppercased symbols
CacheKeys == {ToUpperCase(Trim(v)) : v \in AllSymbols}

\* C28: getCachedPrice returns an entry only if its age is strictly less
\* than PRICE_CACHE_DURATION; the lookup deletes the entry of the key when
\* it is expired and nothing else; fetchStockPrice fills the price field
\* from the cache only with the price of an entry younger than the window.
C28_CacheReusedOnlyWhenFresh ==
    /\ \A key \in CacheKeys :
        /\ \A e \in getCachedPrice(S, key) :
              /\ e \in localStorage.prices /\ e.symbol = key
              /\ now - e.timestamp < PRICE_CACHE_DURATION
        /\ DropExpired(S, key).localStorage.prices =
              localStorage.prices \
                {e \in localStorage.prices :
                    e.symbol = key /\ now - e.timestamp >= PRICE_CACHE_DURATION}
    /\ autoPriceEnabled =>
        \A v \in AllSymbols :
            LET t == fetchStockPrice(S, Trim(v))
            IN  /\ t.form.entryPrice # form.entryPrice =>
                     \E e \in localStorage.prices :
                        /\ e.symbol = ToUpperCase(Trim(v))
                        /\ now - e.timestamp < PRICE_CACHE_DURATION
                        /\ t.form.entryPrice = ToFixed2(e.price)
                /\ \A e \in t.localStorage.prices :
                     e.symbol = ToUpperCase(Trim(v))
                        => now - e.timestamp < PRICE_CACHE_DURATION

\* the debounced fetch of the symbol field has met an expired entry: the
\* entry is gone and the quote is asked for again
C28_Witness ==
    /\ last.op = "fetchStockPrice" /\ last.ok /\ last.stale
    /\ GetItem(localStorage.prices, last.sym) = {}
    /\ \E req \in inflight : req.kind = "foreground" /\ req.symbol = last.sym

\* the uppercased symbols the records of the collection hold
HeldSymbols ==
    {ToUpperCase(tabs[i].stockSymbol) :
        i \in {j \in 1..Len(tabs) : tabs[j].stockSymbol # <<>>}}

\* C29: cleanupOrphanedCache removes exactly the orphans: every entry that
\* remains is the entry of the uppercased symbol of some record, every
\* entry of a symbol some record holds remains, and nothing but the quote
\* entries changes (the collection and the active id stay as persisted).
C29_SweepRemovesExactlyOrphans ==
    LET t == cleanupOrphanedCache(S)
    IN  /\ \A e \in t.localStorage.prices :
              e \in localStorage.prices /\ e.symbol \in HeldSymbols
        /\ \A e \in localStorage.prices :
              e.symbol \in HeldSymbols => e \in t.localStorage.prices
        /\ t.localStorage.stockTabs = localStorage.stockTabs
        /\ t.localStorage.activeTabId = localStorage.activeTabId
        /\ t = [S EXCEPT !.localStorage.prices = t.localStorage.prices]

\* the sweep has run on a cache that held an orphan and an entry to keep:
\* the orphan is gone, the other entry is still there
C29_Witness ==
    /\ last.op = "cleanupOrphanedCache" /\ last.hit /\ last.kept
    /\ localStorage.prices # {}
    /\ \A e \in localStorage.prices : e.symbol \in HeldSymbols

(***************************************************************************)
(* Properties of Trade Math.                                               *)
(***************************************************************************)
\* the inputs the form holds, as calculateTradeLevels reads them
CurrentPrice == parseFloat(form.entryPrice)
BasePrice ==
    IF calculationMode = "target" THEN parseFloat(form.targetPrice)
    ELSE CurrentPrice
Quantity == parseInt(form.quantity)
TpPercent == parseFloat(form.tpPercent)
SlPercent == parseFloat(form.slPercent)

\* text is the prefix and then, with two decimals, the number of hundredths h
ShowsHundredths(text, prefix, h) ==
    text = prefix \o Fixed2(h)

\* text is the prefix and then, with two decimals, a number of hundredths
\* nearest to the x millionths
ShowsMillionths(text, prefix, x) ==
    /\ Len(text) > Len(prefix)
    /\ LET shown == SubSeq(text, Len(prefix) + 1, Len(text))
           d == parseFloat(shown)
       IN  /\ d >= 0
           /\ text = prefix \o Fixed2(d)
           /\ \/ d = x \div 10000 /\ 2 * (x % 10000) <= 10000
              \/ d = x \div 10000 + 1 /\ 2 * (x % 10000) >= 10000

\* text is '1:' and then, with one decimal, a number of tenths nearest to
\* num / den
ShowsRatio(text, num, den) ==
    /\ Len(text) > 2
    /\ LET shown == SubSeq(text, 3, Len(text))
           d == parseFloat(shown)
       IN  /\ d >= 0 /\ d % 10 = 0
           /\ text = <<"1", ":">> \o Fixed1(d \div 10)
           /\ \/ d \div 10 = (10 * num) \div den /\ 2 * ((10 * num) % den) <= den
              \/ d \div 10 = (10 * num) \div den + 1 /\ 2 * ((10 * num) % den) >= den

\* the panel r shows the levels of base price P (hundredths), quantity Q and
\* percentages T and L (hundredths of a percent); maxProfit / maxLoss is
\* (P*T*Q) / (P*L*Q), that is T / L
ShowsLevels(r, P, Q, T, L) ==
    /\ r.active
    /\ ShowsMillionths(r.resultTP, <<"$">>, P * (10000 + T))
    /\ ShowsMillionths(r.resultSL, <<"$">>, P * (10000 - L))
    /\ ShowsHundredths(r.resultInvestment, <<"$">>, P * Q)
    /\ ShowsMillionths(r.maxProfit, <<"+", "$">>, P * T * Q)
    /\ ShowsMillionths(r.maxLoss, <<"-", "$">>, P * L * Q)
    /\ ShowsRatio(r.riskReward, T, L)

\* price 100, quantity 10, tp% 10, sl% 5
ExampleInput ==
    BasePrice = 10000 /\ Quantity = 10 /\ TpPercent = 1000 /\ SlPercent = 500

\* 110.00, 95.00, 1000.00, 100.00, 50.00 and '1:2.0'
ExampleShown(r) ==
    /\ r.resultTP = <<"$", "1", "1", "0", ".", "0", "0">>
    /\ r.resultSL = <<"$", "9", "5", ".", "0", "0">>
    /\ r.resultInvestment = <<"$", "1", "0", "0", "0", ".", "0", "0">>
    /\ r.maxProfit = <<"+", "$", "1", "0", "0", ".", "0", "0">>
    /\ r.maxLoss = <<"-", "$", "5", "0", ".", "0", "0">>
    /\ r.riskReward = <<"1", ":", "2", ".", "0">>

\* C30: whenever the form holds a base price P > 0, a quantity Q > 0, a
\* tp% T >= 0 and an sl% L > 0, and the current price is positive too (in
\* target mode the base price is the target price, and the validation asks
\* for the current price in both modes), calculateTradeLevels shows
\* tpPrice = P*(1+T/100), slPrice = P*(1-L/100), investment = P*Q,
\* maxProfit = (tpPrice-P)*Q and maxLoss = (P-slPrice)*Q with two decimals
\* and '1:' with maxProfit/maxLoss to one decimal; 100, 10, 10, 5 gives
\* 110.00, 95.00, 1000.00, 100.00, 50.00 and '1:2.0'.
C30_TradeMath ==
    (/\ CurrentPrice > 0
     /\ BasePrice > 0 /\ Quantity > 0 /\ TpPercent >= 0 /\ SlPercent > 0)
    => LET r == calculateTradeLevels(S).results
       IN  /\ ShowsLevels(r, BasePrice, Quantity, TpPercent, SlPercent)
           /\ ExampleInput => ExampleShown(r)

\* the statement for every base price P > 0, whatever the current price
C30_TradeMathOfBasePrice ==
    (BasePrice > 0 /\ Quantity > 0 /\ TpPercent >= 0 /\ SlPercent > 0)
    => LET r == calculateTradeLevels(S).results
       IN  /\ ShowsLevels(r, BasePrice, Quantity, TpPercent, SlPercent)
           /\ ExampleInput => ExampleShown(r)

\* the panel shows the levels of price 100, quantity 10, tp% 10 and sl% 5
\* that the calculation wrote
C30_Witness ==
    /\ CurrentPrice > 0 /\ ExampleInput
    /\ results.active
    /\ results = calculateTradeLevels(S).results
    /\ ExampleShown(results)

\* the text of the ratio is '1:' and a number with one decimal
IsFiniteRatio(text) ==
    /\ Len(text) > 2
    /\ LET d == parseFloat(SubSeq(text, 3, Len(text)))
       IN  d >= 0 /\ text = <<"1", ":">> \o Fixed1(d \div 10)

\* C31: with sl% = 0 (and tp% = 0 or tp% > 0) on a positive price and
\* quantity, the stop-loss price shown is the base price and the loss shown
\* is 0.00 (with tp% = 0 the take-profit price is the base price and the
\* profit 0.00 too), and the ratio shown is a finite number: never
\* 'NaN', never 'Infinity'.
C31_ZeroLossRatioDefined ==
    (/\ CurrentPrice > 0
     /\ BasePrice > 0 /\ Quantity > 0 /\ TpPercent >= 0 /\ SlPercent = 0)
    => LET r == calculateTradeLevels(S).results
       IN  /\ r.resultSL = <<"$">> \o Fixed2(BasePrice)
           /\ r.maxLoss = <<"-", "$", "0", ".", "0", "0">>
           /\ TpPercent = 0 =>
                /\ r.resultTP = <<"$">> \o Fixed2(BasePrice)
                /\ r.maxProfit = <<"+", "$", "0", ".", "0", "0">>
           /\ IsFiniteRatio(r.riskReward)

\* a number field the user left empty, or whose number is below the least
\* number the validation admits
Missing(f) == form[f] = <<>>

InvalidInputs ==
    \/ Missing("entryPrice") \/ CurrentPrice <= 0
    \/ Missing("quantity") \/ Quantity <= 0
    \/ Missing("tpPercent") \/ TpPercent < 0
    \/ Missing("slPercent") \/ SlPercent < 0
    \/ /\ calculationMode = "target"
       /\ Missing("targetPrice") \/ parseFloat(form.targetPrice) <= 0

\* C32: when the current price or the quantity is missing or not positive, a
\* percentage is missing or negative, or in target mode the target price is
\* missing or not positive, calculateTradeLevels (and autoCalculate, which
\* calls it) changes nothing: no result value, not the visibility of the
\* panel, no record; when all inputs are valid it shows the panel with the
\* levels of the inputs and still changes no record.
C32_InvalidInputsSkipCalculation ==
    IF InvalidInputs
    THEN /\ calculateTradeLevels(S) = S
         /\ autoCalculate(S) = S
    ELSE LET c == calculateTradeLevels(S)
         IN  /\ c.results.active
             /\ ShowsHundredths(c.results.resultEntry, <<"$">>, BasePrice)
             /\ ShowsHundredths(c.results.resultInvestment, <<"$">>,
                                BasePrice * Quantity)
             /\ ShowsMillionths(c.results.resultTP, <<"$">>,
                                BasePrice * (10000 + TpPercent))
             /\ ShowsMillionths(c.results.resultSL, <<"$">>,
                                BasePrice * (10000 - SlPercent))
             /\ c = [S EXCEPT !.results = c.results]
             /\ autoCalculate(S) = c

\* an edit made the inputs invalid and the panel still shows the levels of
\* the inputs before it
C32_Witness ==
    /\ last.op = "input"
    /\ InvalidInputs
    /\ results.active
    /\ results # NoResults

\* the card shows the amounts of the panel
CardShowsPanel(card, r) ==
    /\ card.produced
    /\ card.entryPrice = r.resultEntry
    /\ card.tpPrice = r.resultTP
    /\ card.slPrice = r.resultSL
    /\ card.investment = r.resultInvestment
    /\ card.maxProfit = r.maxProfit
    /\ card.maxLoss = r.maxLoss
    /\ card.ratio = r.riskReward

\* C33: whenever the panel shows a result, the card exportTradeCard produces
\* has the entry price, take-profit, stop-loss, total cost, profit, loss and
\* ratio the panel shows, in both calculation modes; when the panel shows
\* no result, no card is produced.
C33_ExportShowsPanel ==
    IF results.active
    THEN CardShowsPanel(exportTradeCard(S), results)
    ELSE ~exportTradeCard(S).produced

(***************************************************************************)
(* Properties of the timers and of the responses in flight.                *)
(***************************************************************************)
\* C34: in every reachable state, whatever the interleaving of keystrokes,
\* tab operations and timer firings, at most one debounce flush timer is
\* pending and at most one poll interval timer is running (and the handle
\* autoFetchIntervalId is set exactly when that one timer runs).
C34_OneFlushOnePoller ==
    /\ saveTimers \in {0, 1}
    /\ intervalTimers \in {0, 1}
    /\ autoFetchIntervalId <=> intervalTimers = 1

\* a keystroke arrived while the poller was running and the active record
\* still asks for polling: one flush is pending and one poller runs
C34_Witness ==
    /\ last.op = "input"
    /\ saveTimers = 1
    /\ intervalTimers = 1 /\ autoFetchIntervalId
    /\ HasAutoPrice(S)

\* the request of a poll cycle for the record rec
PollRequest(rec) ==
    [kind |-> "poll", symbol |-> PolledSymbol(rec), obj |-> rec.obj]

\* C35: when the interval timer fires, the cycle issues a fetch only if the
\* record activeTabId names at that moment exists, has autoPriceEnabled true
\* and a non-empty symbol, and the symbol fetched is that record's symbol at
\* that moment; otherwise the cycle issues no fetch and changes nothing.
C35_PollCycleReadsLiveRecord ==
    [][IntervalFires =>
        /\ UNCHANGED <<tabs, activeTabId, calculationMode, autoPriceEnabled,
                       form, isLoadingTabState, loadTimers, saveTimers,
                       symbolTimer, autoFetchIntervalId, intervalTimers,
                       localStorage, now, cleanupPending, results>>
        /\ IF /\ ActiveIndex # 0
              /\ tabs[ActiveIndex].autoPriceEnabled
              /\ Trim(tabs[ActiveIndex].stockSymbol) # <<>>
           THEN inflight' = inflight \cup {PollRequest(tabs[ActiveIndex])}
           ELSE inflight' = inflight]_vars

\* the timer fired while the active record asked for polling, and the
\* request for the symbol that record holds is in flight
C35_Witness ==
    /\ last.op = "intervalFires" /\ last.ok
    /\ ActiveIndex # 0
    /\ last.sym = PolledSymbol(tabs[ActiveIndex])
    /\ PollRequest(tabs[ActiveIndex]) \in inflight

\* the timer fired while the active record had no symbol left: no request
C35_WitnessNoFetch ==
    /\ last.op = "intervalFires" /\ ~last.ok
    /\ intervalTimers = 1
    /\ inflight = {}

\* the response to the request req in flight, with a quote
Landed(req, price) ==
    IF req.kind = "poll" THEN fetchPriceForActiveTabDone(S, req, price)
    ELSE fetchStockPriceDone(S, req, price)

\* the tab the request req was issued for is no longer the active one, or
\* auto-price was turned off since
LeftBehind(req) ==
    IF req.kind = "poll"
    THEN ActiveIndex = 0 \/ tabs[ActiveIndex].obj # req.obj
                         \/ ~tabs[ActiveIndex].autoPriceEnabled
    ELSE ~autoPriceEnabled

\* C36: when the active tab changed, or auto-price was turned off, after a
\* quote request was issued, its response does not change the price field of
\* the form, which shows the now-active tab, and a later flush stores in the
\* active record the price it would have stored without the response.
C36_ResponseStaysInItsTab ==
    \A req \in inflight :
        \A price \in Quotes :
            LeftBehind(req) =>
                /\ Landed(req, price).form.entryPrice = form.entryPrice
                /\ \A i \in 1..Len(tabs) :
                        tabs[i].obj # req.obj =>
                            saveCurrentTabState(Landed(req, price)).tabs[i]
                                = saveCurrentTabState(S).tabs[i]

\* C37: once a confirmed closeTab has removed the last record holding the
\* symbol S and evicted the cache entry of S, no step creates a cache entry
\* for S while no record holds S, even when a fetch for S was in flight at
\* the close. Stated for the step that follows the close.
C37_EvictionOutlivesFetch ==
    [][(/\ last.op = "closeTab" /\ last.ok /\ last.sym # <<>>
        /\ last.sym \notin HeldSymbols
        /\ GetItem(localStorage.prices, last.sym) = {}
        /\ last.sym \notin HeldSymbols')
       => GetItem(localStorage'.prices, last.sym) = {}]_vars

\* from the collection ts to the collection us only the record at position
\* i may differ, and that one keeps its id and createdAt
OnlyRecordChanged(ts, us, i) ==
    /\ Len(us) = Len(ts)
    /\ \A j \in 1..Len(ts) :
        /\ us[j].id = ts[j].id
        /\ us[j].createdAt = ts[j].createdAt
        /\ us[j].obj = ts[j].obj
        /\ j # i => us[j] = ts[j]

\* C38: saveCurrentTabState, called directly or by the debounce timer
\* whenever that timer was scheduled, changes no field of a record other
\* than the one active when it executes, changes no record's id or
\* createdAt, and changes neither the order or size of the collection nor
\* activeTabId.
C38_FlushWritesActiveRecordOnly ==
    /\ [](/\ OnlyRecordChanged(tabs, saveCurrentTabState(S).tabs, ActiveIndex)
          /\ saveCurrentTabState(S).activeTabId = activeTabId)
    /\ [][SaveTimerFires =>
            /\ OnlyRecordChanged(tabs, tabs', ActiveIndex)
            /\ activeTabId' = activeTabId]_vars

\* the debounce timer fired while the second of several records was active:
\* that record holds the form and a record before it does not
C38_Witness ==
    /\ last.op = "flush" /\ last.ok
    /\ last.idx = ActiveIndex /\ ActiveIndex > 1
    /\ HoldsForm(tabs[ActiveIndex], form, autoPriceEnabled, calculationMode)
    /\ ~HoldsForm(tabs[1], form, autoPriceEnabled, calculationMode)

====
